---- MODULE Spec2Model ----
(***************************************************************************)
(* A model of the AMP runtime (runtime/src/amp_*.c): the SPSC mailbox, the *)
(* SPSC byte ring buffer, the counting semaphore, the boot handshake and   *)
(* the bump-allocated shared arena.  Two cores run in parallel; one step   *)
(* of the model is one load or store of a shared word (or one byte of a    *)
(* memcpy) by one core.  The 32-bit index words and the machine word       *)
(* size_t are kept as fixed-width unsigned integers of a reduced width:    *)
(* arithmetic on them is taken modulo Word (indices) or SizeWord (size_t). *)
(***************************************************************************)
EXTENDS Integers, Sequences, FiniteSets, TLC

VARIABLES
    mbox,       \* struct amp_mailbox_s in shared memory
    prod,       \* the producer core inside amp_mailbox_try_send / amp_mailbox_send
    cons,       \* the consumer core inside amp_mailbox_try_recv / amp_mailbox_recv
    sent,       \* messages accepted by successful sends, in order
    received,   \* messages returned by successful receives, in order
    rb,         \* struct amp_ringbuf_s in shared memory
    wr,         \* the writer core inside amp_ringbuf_write
    rd,         \* the reader core inside amp_ringbuf_read
    written,    \* bytes accepted by amp_ringbuf_write, in order
    readout,    \* bytes returned by amp_ringbuf_read, in order
    sem,        \* struct amp_semaphore_s in shared memory
    sem0,       \* the initial_count the semaphore was created with
    score,      \* each core inside amp_semaphore_try_wait / _wait / _post
    posts,      \* number of amp_semaphore_post calls that returned 0
    waits,      \* number of try_wait / wait calls that returned 0
    shared,     \* shared_counter_t of the shared-counter example
    app,        \* each core inside the increment loop of the example
    boxes,      \* the mailboxes of the ping-pong and hello examples
    task,       \* each core inside the ping-pong or hello example
    core_ready_flags,   \* static volatile uint32_t core_ready_flags (amp_boot.c)
    boot,       \* each core inside the amp_boot_* functions
    payload,    \* a shared word core 1 sets up before it signals ready
    g_shmem_pool,       \* static amp_shmem_pool_t g_shmem_pool (amp_shmem.c)
    allocs,     \* the successful amp_shmem_alloc calls: <<size asked, address>>
    last_alloc, \* the last amp_shmem_alloc call: argument, arena before, result
    created,    \* the last amp_mailbox_create / amp_ringbuf_create call
    released    \* the number of destroy / amp_shmem_free calls made

mbVars == <<mbox, prod, cons, sent, received>>
rbVars == <<rb, wr, rd, written, readout>>
semVars == <<sem, sem0, score, posts, waits>>
appVars == <<shared, app, boxes, task>>
bootVars == <<core_ready_flags, boot, payload>>
shVars == <<g_shmem_pool, allocs, last_alloc, created, released>>

vars == <<mbVars, rbVars, semVars, appVars, bootVars, shVars>>

\* The two cores, AMP_CORE0 and AMP_CORE1.
Cores == { 0, 1 }

----------------------------------------------------------------------------
(* Bounds of the model. *)

\* Width in bits of the index words write_idx / read_idx (uint32_t in the
\* source; the model keeps the modular arithmetic at a reduced width).
IdxBits == 2

\* Number of messages the producer may still get accepted after write_idx
\* has wrapped around the index word.
SendsPastWrap == 2

\* msg_size of the mailbox, in bytes.
MsgSize == 2

\* Width in bits of the machine word size_t.
SizeBits == 5

\* Largest len passed to amp_ringbuf_write / amp_ringbuf_read.
MaxLen == 2

\* Number of bytes the writer may still offer to the ring buffer after
\* write_idx has wrapped around the index word.
BytesPastWrap == 2

\* Number of messages accepted, and of successful semaphore operations, in
\* a run of the timed waits.
WaitSends == 2
WaitSemOps == 2

\* Largest max_count a semaphore is created with.
MaxSemMax == 2

\* Number of successful semaphore operations in one run.
MaxSemOps == 4

\* Number of increment_counter calls of each core (INCREMENT_COUNT).
MaxIncrements == 2

\* Number of round trips of the ping-pong example (PING_PONG_COUNT).  With
\* the final DONE, PingPongCount + 1 messages cross one mailbox; this stays
\* below 2^IdxBits, as 11 stays below 2^32.
PingPongCount == 2

\* Number of amp_boot_* calls a core makes after start-up (for core 0:
\* after its amp_boot_init).
MaxBootCalls == 3

\* Number of successful amp_shmem_alloc calls in one run.
MaxAllocs == 3

\* Number of destroy / amp_shmem_free calls in one run.
MaxReleases == 2

\* Messages sent, bytes written and semaphore operations in a run that has
\* destroy / free calls in it.
DestroyOps == 2

----------------------------------------------------------------------------
(* Fixed-width unsigned arithmetic. *)

RECURSIVE Pow2(_)
Pow2(n) == IF n = 0 THEN 1 ELSE 2 * Pow2(n - 1)

\* One more than the largest value of a uint32_t index (2^32 in the source).
Word == Pow2(IdxBits)

\* One more than the largest value of a size_t.
SizeWord == Pow2(SizeBits)

\* Number of messages the producer may get accepted in one run: enough for
\* write_idx to wrap around the index word and go on.
MaxSends == Word + SendsPastWrap

\* Number of bytes the writer may offer to the ring buffer in one run:
\* enough for write_idx and read_idx to wrap around the index word.
MaxWritten == Word + BytesPastWrap

\* Unsigned subtraction a - b of two index words.
USub(a, b) == (a - b) % Word

\* Unsigned addition a + b of two index words.
UAdd(a, b) == (a + b) % Word

RECURSIVE BitAnd(_, _)
BitAnd(a, b) ==
    IF a = 0 \/ b = 0 THEN 0
    ELSE (a % 2) * (b % 2) + 2 * BitAnd(a \div 2, b \div 2)

RECURSIVE BitOr(_, _)
BitOr(a, b) ==
    IF a = 0 THEN b
    ELSE IF b = 0 THEN a
    ELSE (IF a % 2 = 1 \/ b % 2 = 1 THEN 1 ELSE 0) + 2 * BitOr(a \div 2, b \div 2)

\* x >> k on an unsigned word.
Shr(x, k) == x \div Pow2(k)

----------------------------------------------------------------------------
(* Mailbox: runtime/src/amp_mailbox.c *)

\* The message the producer passes after k messages have been accepted:
\* MsgSize bytes, no byte shared between two messages, none equal to the
\* zero fill of a fresh arena.  The code never looks at the bytes it
\* copies, so distinct payloads show every loss, repetition, reordering or
\* mix of messages.
MsgOf(k) == [ b \in 1 .. MsgSize |-> k * MsgSize + b ]

\* The timeout_ms values a caller passes to a blocking call: 0 (wait
\* forever) and a positive one.
TimeoutsMs == { 0, 1 }

\* Busy-wait iterations per millisecond of timeout (count = timeout_ms * 1000).
SpinsPerMs == 1000

\* The slot counts a configuration may ask for: 1 .. 2^(IdxBits-1), the
\* counterpart of 1 .. 2^31 for 32-bit indices.
CfgSlots == 1 .. Pow2(IdxBits - 1)

\* Lines 31-41: round slots up to the next power of two.
RoundUpPow2(n) ==
    IF BitAnd(n, USub(n, 1)) # 0
    THEN LET s0 == USub(n, 1)
             s1 == BitOr(s0, Shr(s0, 1))
             s2 == BitOr(s1, Shr(s1, 2))
             s3 == BitOr(s2, Shr(s2, 4))
             s4 == BitOr(s3, Shr(s3, 8))
             s5 == BitOr(s4, Shr(s4, 16))
         IN  UAdd(s5, 1)
    ELSE n

\* amp_mailbox_create: the control block of a fresh mailbox (the arena is
\* zero-filled by amp_shmem_init, so every data byte starts as 0).
amp_mailbox_create(msg_size, msg_slots) ==
    LET slots == RoundUpPow2(msg_slots)
    IN  [ write_idx |-> 0,
          read_idx  |-> 0,
          msg_size  |-> msg_size,
          msg_slots |-> slots,
          mask      |-> USub(slots, 1),
          data      |-> [ b \in 0 .. (msg_size * slots - 1) |-> 0 ] ]

\* The full test with the comparison off by one.
MboxIsFull_OffByOne(w, r, slots) == USub(w, r) > slots

\* Line 81: the full test of try_send on the loaded indices.
MboxIsFull(w, r, slots) == USub(w, r) >= slots

\* The empty test with the comparison made strict.
MboxIsEmpty_Strict(w, r) == r > w

\* Line 110: the empty test of try_recv on the loaded indices.
MboxIsEmpty(w, r) == r >= w

\* The byte offset with the slot index left out.
MboxOffset_NoSlot(idx, mask, msg_size, i) == i

\* Lines 86-87 and 115-116: byte offset of byte i of the slot of index idx.
MboxOffset(idx, mask, msg_size, i) == BitAnd(idx, mask) * msg_size + i

\* The bytes of a message buffer that has not been written.
NoMsg == [ b \in 1 .. MsgSize |-> 0 ]

\* A core that is not inside a mailbox call.  h and buf tell whether the
\* mbox and msg arguments of its last call were non-null.
CoreIdle ==
    [ pc |-> "idle", op |-> "none", h |-> TRUE, buf |-> TRUE, msg |-> NoMsg,
      timeout_ms |-> 0, count |-> 0, w |-> 0, r |-> 0, i |-> 0, ret |-> 0 ]

\* The arguments a caller may pass, as <<mbox non-null, msg non-null, bytes
\* behind msg>>: a valid handle with a message, a null handle, a null msg.
SendArgs ==
    { <<TRUE, TRUE, MsgOf(Len(sent))>>, <<FALSE, TRUE, MsgOf(Len(sent))>>,
      <<TRUE, FALSE, NoMsg>> }

RecvArgs == { <<TRUE, TRUE, NoMsg>>, <<FALSE, TRUE, NoMsg>>, <<TRUE, FALSE, NoMsg>> }

MailboxInit ==
    /\ \E n \in CfgSlots : mbox = amp_mailbox_create(MsgSize, n)
    /\ prod = CoreIdle
    /\ cons = CoreIdle
    /\ sent = << >>
    /\ received = << >>

MailboxParked ==
    /\ mbox = amp_mailbox_create(MsgSize, 1)
    /\ prod = CoreIdle
    /\ cons = CoreIdle
    /\ sent = << >>
    /\ received = << >>

\* --- producer ------------------------------------------------------------

\* A call of amp_mailbox_try_send(mbox, msg).
CallTrySend ==
    /\ prod.pc = "idle"
    /\ Len(sent) < MaxSends
    /\ \E a \in SendArgs :
         prod' = [ CoreIdle EXCEPT !.pc = "entry", !.op = "try_send",
                                   !.h = a[1], !.buf = a[2], !.msg = a[3] ]
    /\ UNCHANGED <<mbox, cons, sent, received, rbVars, semVars, appVars, bootVars, shVars>>

\* A call of amp_mailbox_send(mbox, msg, timeout_ms); line 134.
CallSend ==
    /\ prod.pc = "idle"
    /\ Len(sent) < MaxSends
    /\ \E a \in SendArgs, t \in TimeoutsMs :
         prod' = [ CoreIdle EXCEPT !.pc = "entry", !.op = "send",
                                   !.h = a[1], !.buf = a[2], !.msg = a[3],
                                   !.timeout_ms = t,
                                   !.count = (t * SpinsPerMs) % Word ]
    /\ UNCHANGED <<mbox, cons, sent, received, rbVars, semVars, appVars, bootVars, shVars>>

\* The outcome rc of one amp_mailbox_try_send, seen by its caller:
\* try_send returns it; send (line 136, the loop condition) returns 0 on
\* success and otherwise enters the loop body.  The locals of a call that
\* has returned (count, i, the message buffer) are dead and are cleared;
\* w, r, ret and the arguments stay for inspection.
SendOutcome(p, rc) ==
    IF p.op = "try_send" \/ rc = 0
    THEN [ p EXCEPT !.pc = "idle", !.ret = rc, !.count = 0, !.i = 0, !.msg = NoMsg ]
    ELSE [ p EXCEPT !.pc = "retry" ]

\* Lines 137-140, the loop body of the three blocking calls (also lines
\* 156-159 and amp_semaphore.c lines 107-109):
\* if (timeout_ms > 0 && --count == 0) return -1; otherwise try again.
\* --count is evaluated only when timeout_ms > 0.
LoopBody(p) ==
    IF p.timeout_ms > 0 /\ USub(p.count, 1) = 0
    THEN [ p EXCEPT !.pc = "idle", !.ret = -1, !.count = 0 ]
    ELSE [ p EXCEPT !.pc = "entry",
                    !.count = IF p.timeout_ms > 0 THEN USub(p.count, 1) ELSE p.count ]

\* Lines 137-140: the loop body of amp_mailbox_send after a failed try.
SendRetry ==
    /\ prod.pc = "retry"
    /\ LET q == LoopBody(prod)
       IN  prod' = IF q.pc = "idle" THEN [ q EXCEPT !.i = 0, !.msg = NoMsg ] ELSE q
    /\ UNCHANGED <<mbox, cons, sent, received, rbVars, semVars, appVars, bootVars, shVars>>

\* Lines 73-77: the null checks, then the load of write_idx.
SendLoadW ==
    /\ prod.pc = "entry"
    /\ IF ~prod.h \/ ~prod.buf
       THEN prod' = SendOutcome(prod, -1)
       ELSE prod' = [ prod EXCEPT !.pc = "load_r", !.w = mbox.write_idx ]
    /\ UNCHANGED <<mbox, cons, sent, received, rbVars, semVars, appVars, bootVars, shVars>>

\* Lines 78-83: the load of read_idx and the full test.
SendLoadR ==
    /\ prod.pc = "load_r"
    /\ LET r == mbox.read_idx IN
         IF MboxIsFull(prod.w, r, mbox.msg_slots)
         THEN prod' = SendOutcome([ prod EXCEPT !.r = r ], -1)
         ELSE prod' = [ prod EXCEPT !.pc = "copy", !.r = r, !.i = 0 ]
    /\ UNCHANGED <<mbox, cons, sent, received, rbVars, semVars, appVars, bootVars, shVars>>

\* Line 88: memcpy(dest, msg, msg_size), one byte per step.
SendCopy ==
    /\ prod.pc = "copy"
    /\ prod.i < mbox.msg_size
    /\ mbox' = [ mbox EXCEPT
                   !.data[MboxOffset(prod.w, mbox.mask, mbox.msg_size, prod.i)] =
                       prod.msg[prod.i + 1] ]
    /\ prod' = [ prod EXCEPT !.i = prod.i + 1 ]
    /\ UNCHANGED <<cons, sent, received, rbVars, semVars, appVars, bootVars, shVars>>

\* Lines 91-94: the barrier, the store of write_idx, return 0.
SendPublish ==
    /\ prod.pc = "copy"
    /\ prod.i = mbox.msg_size
    /\ mbox' = [ mbox EXCEPT !.write_idx = UAdd(prod.w, 1) ]
    /\ sent' = Append(sent, prod.msg)
    /\ prod' = SendOutcome(prod, 0)
    /\ UNCHANGED <<cons, received, rbVars, semVars, appVars, bootVars, shVars>>

\* --- consumer ------------------------------------------------------------

\* A call of amp_mailbox_try_recv(mbox, msg).
CallTryRecv ==
    /\ cons.pc = "idle"
    /\ \E a \in RecvArgs :
         cons' = [ CoreIdle EXCEPT !.pc = "entry", !.op = "try_recv",
                                   !.h = a[1], !.buf = a[2], !.msg = a[3] ]
    /\ UNCHANGED <<mbox, prod, sent, received, rbVars, semVars, appVars, bootVars, shVars>>

\* A call of amp_mailbox_recv(mbox, msg, timeout_ms); line 153.
CallRecv ==
    /\ cons.pc = "idle"
    /\ \E a \in RecvArgs, t \in TimeoutsMs :
         cons' = [ CoreIdle EXCEPT !.pc = "entry", !.op = "recv",
                                   !.h = a[1], !.buf = a[2], !.msg = a[3],
                                   !.timeout_ms = t,
                                   !.count = (t * SpinsPerMs) % Word ]
    /\ UNCHANGED <<mbox, prod, sent, received, rbVars, semVars, appVars, bootVars, shVars>>

\* amp_mailbox_recv without the countdown: a failed try is always retried.
RecvOutcome_NeverExpires(c, rc) ==
    IF c.op = "try_recv" \/ rc = 0
    THEN [ c EXCEPT !.pc = "idle", !.ret = rc, !.count = 0, !.i = 0, !.msg = NoMsg ]
    ELSE [ c EXCEPT !.pc = "entry" ]

\* A try_recv that tries again instead of reporting the empty mailbox.
RecvOutcome_TryAgain(c, rc) ==
    IF rc = 0
    THEN [ c EXCEPT !.pc = "idle", !.ret = rc, !.count = 0, !.i = 0, !.msg = NoMsg ]
    ELSE [ c EXCEPT !.pc = "entry" ]

\* The outcome rc of one amp_mailbox_try_recv, seen by its caller
\* (line 155, the loop condition, for recv).
RecvOutcome(c, rc) ==
    IF c.op = "try_recv" \/ rc = 0
    THEN [ c EXCEPT !.pc = "idle", !.ret = rc, !.count = 0, !.i = 0, !.msg = NoMsg ]
    ELSE [ c EXCEPT !.pc = "retry" ]

\* Lines 156-159: the loop body of amp_mailbox_recv after a failed try.
RecvRetry ==
    /\ cons.pc = "retry"
    /\ LET q == LoopBody(cons)
       IN  cons' = IF q.pc = "idle" THEN [ q EXCEPT !.i = 0, !.msg = NoMsg ] ELSE q
    /\ UNCHANGED <<mbox, prod, sent, received, rbVars, semVars, appVars, bootVars, shVars>>

\* Lines 102-106: the null checks, then the load of write_idx.
RecvLoadW ==
    /\ cons.pc = "entry"
    /\ IF ~cons.h \/ ~cons.buf
       THEN cons' = RecvOutcome(cons, -1)
       ELSE cons' = [ cons EXCEPT !.pc = "load_r", !.w = mbox.write_idx ]
    /\ UNCHANGED <<mbox, prod, sent, received, rbVars, semVars, appVars, bootVars, shVars>>

\* Lines 107-112: the load of read_idx and the empty test.
RecvLoadR ==
    /\ cons.pc = "load_r"
    /\ LET r == mbox.read_idx IN
         IF MboxIsEmpty(cons.w, r)
         THEN cons' = RecvOutcome([ cons EXCEPT !.r = r ], -1)
         ELSE cons' = [ cons EXCEPT !.pc = "copy", !.r = r, !.i = 0 ]
    /\ UNCHANGED <<mbox, prod, sent, received, rbVars, semVars, appVars, bootVars, shVars>>

\* Line 117: memcpy(msg, src, msg_size), one byte per step.
RecvCopy ==
    /\ cons.pc = "copy"
    /\ cons.i < mbox.msg_size
    /\ cons' = [ cons EXCEPT
                   !.msg[cons.i + 1] =
                       mbox.data[MboxOffset(cons.r, mbox.mask, mbox.msg_size, cons.i)],
                   !.i = cons.i + 1 ]
    /\ UNCHANGED <<mbox, prod, sent, received, rbVars, semVars, appVars, bootVars, shVars>>

\* Lines 120-123: the barrier, the store of read_idx, return 0.
RecvRelease ==
    /\ cons.pc = "copy"
    /\ cons.i = mbox.msg_size
    /\ mbox' = [ mbox EXCEPT !.read_idx = UAdd(cons.r, 1) ]
    /\ received' = Append(received, cons.msg)
    /\ cons' = RecvOutcome(cons, 0)
    /\ UNCHANGED <<prod, sent, rbVars, semVars, appVars, bootVars, shVars>>

NextMailbox ==
    \/ CallTrySend \/ CallSend \/ SendLoadW \/ SendLoadR \/ SendCopy \/ SendPublish
    \/ SendRetry
    \/ CallTryRecv \/ CallRecv \/ RecvLoadW \/ RecvLoadR \/ RecvCopy \/ RecvRelease
    \/ RecvRetry

----------------------------------------------------------------------------
(* Ring buffer: runtime/src/amp_ringbuf.c *)

\* The len bytes the writer offers after k bytes have been accepted: the
\* next bytes of a stream in which every byte is different (and none is
\* the zero fill of a fresh arena).
BytesOf(k, len) == [ j \in 1 .. len |-> k + j ]

\* Line 26: the sizes amp_ringbuf_create accepts.
RbSizeOk(size) == size # 0 /\ BitAnd(size, size - 1) = 0

\* amp_ringbuf_create: the control block of a fresh ring buffer.
amp_ringbuf_create(size) ==
    [ write_idx |-> 0,
      read_idx  |-> 0,
      size      |-> size % Word,
      mask      |-> (size - 1) % Word,
      data      |-> [ b \in 0 .. (size - 1) |-> 0 ] ]

\* Line 67: amp_ringbuf_available on the loaded indices.
RbAvailable(w, r) == USub(w, r)

\* The free space without the bytes still pending.
RbFreeSpace_IgnorePending(size, avail) == size

\* Line 79: amp_ringbuf_free_space, a size_t.
RbFreeSpace(size, avail) == (size - avail) % SizeWord

\* The clamp left out.
RbClamp_None(len, limit) == len

\* Lines 92-94 and 120-122: if (len > limit) len = limit.
RbClamp(len, limit) == IF len > limit THEN limit ELSE len

\* Lines 100 and 128: position of byte i counted from index idx.
RbPos(idx, i, mask) == BitAnd(idx + i, mask)

\* A core that is not inside a ring-buffer call.  h and buf tell whether
\* the rb and data arguments of its last call were non-null; bytes is the
\* caller's buffer, len the requested length, n the clamped one; aw and ar
\* are the indices loaded by amp_ringbuf_available (before the loads: the
\* indices at the time of the call), idx the own index loaded for the copy
\* and idx0 the own index at the time of the call.
RbIdle ==
    [ pc |-> "idle", op |-> "none", h |-> TRUE, buf |-> TRUE, bytes |-> << >>,
      len |-> 0, n |-> 0, aw |-> 0, ar |-> 0, idx |-> 0, idx0 |-> 0, i |-> 0,
      ret |-> 0 ]

\* The outcome of a ring-buffer call: the dead locals are cleared.
RbReturn(c, rc) ==
    [ c EXCEPT !.pc = "idle", !.ret = rc, !.i = 0, !.n = 0, !.idx = 0, !.bytes = << >> ]

RingbufInit ==
    /\ \E size \in 1 .. Pow2(IdxBits - 1) :
         RbSizeOk(size) /\ rb = amp_ringbuf_create(size)
    /\ wr = RbIdle
    /\ rd = RbIdle
    /\ written = << >>
    /\ readout = << >>

RingbufParked ==
    /\ rb = amp_ringbuf_create(1)
    /\ wr = RbIdle
    /\ rd = RbIdle
    /\ written = << >>
    /\ readout = << >>

\* --- writer --------------------------------------------------------------

\* A call of amp_ringbuf_write(rb, data, len): valid arguments with len
\* bytes behind data, a null rb, or a null data.
CallWrite ==
    /\ wr.pc = "idle"
    /\ Len(written) < MaxWritten
    /\ \E len \in 0 .. MaxLen, a \in { <<TRUE, TRUE>>, <<FALSE, TRUE>>, <<TRUE, FALSE>> } :
         /\ Len(written) + len <= MaxWritten
         /\ a # <<TRUE, TRUE>> => len \in { 0, 1 }
         /\ wr' = [ RbIdle EXCEPT !.pc = "entry", !.op = "write",
                                  !.h = a[1], !.buf = a[2],
                                  !.bytes = BytesOf(Len(written), len),
                                  !.len = len,
                                  !.aw = rb.write_idx, !.ar = rb.read_idx,
                                  !.idx0 = rb.write_idx ]
    /\ UNCHANGED <<mbVars, semVars, appVars, bootVars, shVars, rb, rd, written, readout>>

\* Lines 87-89, then amp_ringbuf_free_space -> amp_ringbuf_available,
\* line 63: the argument checks and the load of write_idx.
WriteLoadW ==
    /\ wr.pc = "entry"
    /\ IF ~wr.h \/ ~wr.buf \/ wr.len = 0
       THEN wr' = RbReturn(wr, 0)
       ELSE wr' = [ wr EXCEPT !.pc = "avail_r", !.aw = rb.write_idx ]
    /\ UNCHANGED <<mbVars, semVars, appVars, bootVars, shVars, rb, rd, written, readout>>

\* Line 64 (load of read_idx), lines 67, 79 and 91-94: len = min(len, free).
WriteLoadR ==
    /\ wr.pc = "avail_r"
    /\ LET r == rb.read_idx
           free == RbFreeSpace(rb.size, RbAvailable(wr.aw, r))
       IN  wr' = [ wr EXCEPT !.pc = "load_idx", !.ar = r, !.n = RbClamp(wr.len, free) ]
    /\ UNCHANGED <<mbVars, semVars, appVars, bootVars, shVars, rb, rd, written, readout>>

\* Line 97: uint32_t write_idx = rb->write_idx.
WriteLoadIdx ==
    /\ wr.pc = "load_idx"
    /\ wr' = [ wr EXCEPT !.pc = "copy", !.idx = rb.write_idx, !.i = 0 ]
    /\ UNCHANGED <<mbVars, semVars, appVars, bootVars, shVars, rb, rd, written, readout>>

\* Lines 99-101: one iteration of the copy loop.
WriteCopy ==
    /\ wr.pc = "copy"
    /\ wr.i < wr.n
    /\ rb' = [ rb EXCEPT !.data[RbPos(wr.idx, wr.i, rb.mask)] = wr.bytes[wr.i + 1] ]
    /\ wr' = [ wr EXCEPT !.i = wr.i + 1 ]
    /\ UNCHANGED <<mbVars, semVars, appVars, bootVars, shVars, rd, written, readout>>

\* Lines 103-107: the barrier, the store of write_idx, return len.
WritePublish ==
    /\ wr.pc = "copy"
    /\ wr.i = wr.n
    /\ rb' = [ rb EXCEPT !.write_idx = UAdd(wr.idx, wr.n % Word) ]
    /\ written' = written \o SubSeq(wr.bytes, 1, wr.n)
    /\ wr' = RbReturn(wr, wr.n)
    /\ UNCHANGED <<mbVars, semVars, appVars, bootVars, shVars, rd, readout>>

\* --- reader --------------------------------------------------------------

\* A call of amp_ringbuf_read(rb, data, len).
CallRead ==
    /\ rd.pc = "idle"
    /\ \E len \in 0 .. MaxLen, a \in { <<TRUE, TRUE>>, <<FALSE, TRUE>>, <<TRUE, FALSE>> } :
         /\ a # <<TRUE, TRUE>> => len \in { 0, 1 }
         /\ rd' = [ RbIdle EXCEPT !.pc = "entry", !.op = "read",
                                  !.h = a[1], !.buf = a[2],
                                  !.bytes = [ k \in 1 .. len |-> 0 ],
                                  !.len = len,
                                  !.aw = rb.write_idx, !.ar = rb.read_idx,
                                  !.idx0 = rb.read_idx ]
    /\ UNCHANGED <<mbVars, semVars, appVars, bootVars, shVars, rb, wr, written, readout>>

\* Lines 115-117, then amp_ringbuf_available, line 63.
ReadLoadW ==
    /\ rd.pc = "entry"
    /\ IF ~rd.h \/ ~rd.buf \/ rd.len = 0
       THEN rd' = RbReturn(rd, 0)
       ELSE rd' = [ rd EXCEPT !.pc = "avail_r", !.aw = rb.write_idx ]
    /\ UNCHANGED <<mbVars, semVars, appVars, bootVars, shVars, rb, wr, written, readout>>

\* Line 64 (load of read_idx), lines 67 and 119-122: len = min(len, available).
ReadLoadR ==
    /\ rd.pc = "avail_r"
    /\ LET r == rb.read_idx
       IN  rd' = [ rd EXCEPT !.pc = "load_idx", !.ar = r,
                             !.n = RbClamp(rd.len, RbAvailable(rd.aw, r)) ]
    /\ UNCHANGED <<mbVars, semVars, appVars, bootVars, shVars, rb, wr, written, readout>>

\* Line 125: uint32_t read_idx = rb->read_idx.
ReadLoadIdx ==
    /\ rd.pc = "load_idx"
    /\ rd' = [ rd EXCEPT !.pc = "copy", !.idx = rb.read_idx, !.i = 0 ]
    /\ UNCHANGED <<mbVars, semVars, appVars, bootVars, shVars, rb, wr, written, readout>>

\* Lines 127-129: one iteration of the copy loop.
ReadCopy ==
    /\ rd.pc = "copy"
    /\ rd.i < rd.n
    /\ rd' = [ rd EXCEPT !.bytes[rd.i + 1] = rb.data[RbPos(rd.idx, rd.i, rb.mask)],
                         !.i = rd.i + 1 ]
    /\ UNCHANGED <<mbVars, semVars, appVars, bootVars, shVars, rb, wr, written, readout>>

\* Lines 131-135: the barrier, the store of read_idx, return len.
ReadRelease ==
    /\ rd.pc = "copy"
    /\ rd.i = rd.n
    /\ rb' = [ rb EXCEPT !.read_idx = UAdd(rd.idx, rd.n % Word) ]
    /\ readout' = readout \o SubSeq(rd.bytes, 1, rd.n)
    /\ rd' = RbReturn(rd, rd.n)
    /\ UNCHANGED <<mbVars, semVars, appVars, bootVars, shVars, wr, written>>

\* --- clear ---------------------------------------------------------------

\* The reader calls amp_ringbuf_clear(rb), rb valid or null.
RbCallClear ==
    /\ rd.pc = "idle"
    /\ \E h \in BOOLEAN :
         rd' = [ RbIdle EXCEPT !.pc = "clr_load", !.op = "clear", !.h = h,
                               !.aw = rb.write_idx, !.ar = rb.read_idx,
                               !.idx0 = rb.read_idx ]
    /\ UNCHANGED <<mbVars, semVars, appVars, bootVars, shVars, rb, wr, written, readout>>

\* Lines 143-147: the null check, then the load of write_idx, the right
\* side of rb->read_idx = rb->write_idx.
ClearLoad ==
    /\ rd.pc = "clr_load"
    /\ IF ~rd.h
       THEN rd' = RbReturn(rd, 0)
       ELSE rd' = [ rd EXCEPT !.pc = "clr_store", !.aw = rb.write_idx ]
    /\ UNCHANGED <<mbVars, semVars, appVars, bootVars, shVars, rb, wr, written, readout>>

\* A clear that empties the buffer by taking write_idx back to read_idx.
ClearStore_MovesWriter ==
    /\ rd.pc = "clr_store"
    /\ rb' = [ rb EXCEPT !.write_idx = rb.read_idx ]
    /\ written' = SubSeq(written, 1, Len(readout))
    /\ rd' = RbReturn(rd, 0)
    /\ UNCHANGED <<mbVars, semVars, appVars, bootVars, shVars, wr, readout>>

\* Lines 147-149: the store of read_idx, the barrier, return.  The bytes
\* between the old and the new read_idx are dropped: readout, the bytes
\* the reader has consumed, takes them without a read returning them.
ClearStore ==
    /\ rd.pc = "clr_store"
    /\ rb' = [ rb EXCEPT !.read_idx = rd.aw ]
    /\ readout' = SubSeq(written, 1, Len(readout) + USub(rd.aw, rb.read_idx))
    /\ rd' = RbReturn(rd, 0)
    /\ UNCHANGED <<mbVars, semVars, appVars, bootVars, shVars, wr, written>>

\* --- pure loads ----------------------------------------------------------

\* The reader calls amp_ringbuf_available(rb), rb valid or null.
RbCallAvailable ==
    /\ rd.pc = "idle"
    /\ \E h \in BOOLEAN :
         rd' = [ RbIdle EXCEPT !.pc = "get_w", !.op = "available", !.h = h ]
    /\ UNCHANGED <<mbVars, semVars, appVars, bootVars, shVars, rb, wr, written, readout>>

\* The writer calls amp_ringbuf_free_space(rb), rb valid or null.
RbCallFreeSpace ==
    /\ wr.pc = "idle"
    /\ \E h \in BOOLEAN :
         wr' = [ RbIdle EXCEPT !.pc = "get_w", !.op = "free_space", !.h = h ]
    /\ UNCHANGED <<mbVars, semVars, appVars, bootVars, shVars, rb, rd, written, readout>>

\* Lines 59-63 (and 75-77): the null check, the load of write_idx.
RbGetW(c) ==
    IF ~c.h THEN RbReturn(c, 0) ELSE [ c EXCEPT !.pc = "get_r", !.aw = rb.write_idx ]

\* Lines 64-67 and 79: the load of read_idx, the difference, return.
RbGetR(c) ==
    LET avail == RbAvailable(c.aw, rb.read_idx)
    IN  RbReturn([ c EXCEPT !.ar = rb.read_idx ],
                 IF c.op = "available" THEN avail ELSE RbFreeSpace(rb.size, avail))

RbGetLoadW ==
    /\ \/ rd.pc = "get_w" /\ rd' = RbGetW(rd) /\ wr' = wr
       \/ wr.pc = "get_w" /\ wr' = RbGetW(wr) /\ rd' = rd
    /\ UNCHANGED <<mbVars, semVars, appVars, bootVars, shVars, rb, written, readout>>

RbGetLoadR ==
    /\ \/ rd.pc = "get_r" /\ rd' = RbGetR(rd) /\ wr' = wr
       \/ wr.pc = "get_r" /\ wr' = RbGetR(wr) /\ rd' = rd
    /\ UNCHANGED <<mbVars, semVars, appVars, bootVars, shVars, rb, written, readout>>

NextRingbuf ==
    \/ CallWrite \/ WriteLoadW \/ WriteLoadR \/ WriteLoadIdx \/ WriteCopy \/ WritePublish
    \/ CallRead \/ ReadLoadW \/ ReadLoadR \/ ReadLoadIdx \/ ReadCopy \/ ReadRelease

\* The ring buffer with every call of its interface: write on the writer
\* core, read and clear on the reader core, the pure loads on both.
NextRingbufAll ==
    \/ NextRingbuf
    \/ RbCallClear \/ ClearLoad \/ ClearStore
    \/ RbCallAvailable \/ RbCallFreeSpace \/ RbGetLoadW \/ RbGetLoadR

----------------------------------------------------------------------------
(* Semaphore: runtime/src/amp_semaphore.c *)

\* Line 51: the arguments amp_semaphore_create rejects.
SemCreateOk(initial_count, max_count) == ~(initial_count > max_count \/ max_count = 0)

\* amp_semaphore_create: the control block of a fresh semaphore.
amp_semaphore_create(initial_count, max_count) ==
    [ count |-> initial_count, max_count |-> max_count ]

\* A compare-and-swap that stores without comparing.
CasMatches_Blind(mem, old_val) == TRUE

\* Lines 19-44: atomic_cas changes *ptr, and returns true, iff *ptr holds
\* old_val; the LDREX/STREX loop (or the compiler builtin) makes the read,
\* the comparison and the write one atomic step.
CasMatches(mem, old_val) == mem = old_val

\* The overflow test with the comparison off by one.
SemAtMax_OffByOne(current, max_count) == current > max_count

\* Line 126: the overflow test of amp_semaphore_post.
SemAtMax(current, max_count) == current >= max_count

\* A core that is not inside a semaphore call.  h tells whether the sem
\* argument of its last call was non-null.
SemIdle ==
    [ pc |-> "idle", op |-> "none", h |-> TRUE, timeout_ms |-> 0, count |-> 0,
      current |-> 0, ret |-> 0 ]

\* The outcome rc of one try_wait / post, seen by the caller: try_wait and
\* post return it; amp_semaphore_wait (line 106, the loop condition)
\* returns 0 on success and otherwise enters the loop body.
SemOutcome(c, rc) ==
    IF c.op # "wait" \/ rc = 0
    THEN [ c EXCEPT !.pc = "idle", !.ret = rc, !.count = 0 ]
    ELSE [ c EXCEPT !.pc = "retry" ]

\* The locals of a call of op with handle h and timeout t; line 104.
SemCall(op, h, t) ==
    [ SemIdle EXCEPT !.pc = "entry", !.op = op, !.h = h, !.timeout_ms = t,
                     !.count = (t * SpinsPerMs) % Word ]

SemaphoreInit ==
    /\ \E max \in 1 .. MaxSemMax, initial \in 0 .. MaxSemMax :
         /\ SemCreateOk(initial, max)
         /\ sem = amp_semaphore_create(initial, max)
         /\ sem0 = initial
    /\ score = [ c \in Cores |-> SemIdle ]
    /\ posts = 0
    /\ waits = 0

SemaphoreParked ==
    /\ sem = amp_semaphore_create(1, 1)
    /\ sem0 = 1
    /\ score = [ c \in Cores |-> SemIdle ]
    /\ posts = 0
    /\ waits = 0

\* A core calls amp_semaphore_try_wait(sem), with a valid or a null handle.
SemCallTryWait ==
    /\ posts + waits < MaxSemOps
    /\ \E c \in Cores, h \in BOOLEAN :
         /\ score[c].pc = "idle"
         /\ score' = [ score EXCEPT ![c] = SemCall("try_wait", h, 0) ]
    /\ UNCHANGED <<mbVars, rbVars, bootVars, shVars, appVars, sem, sem0, posts, waits>>

\* A core calls amp_semaphore_wait(sem, timeout_ms).
SemCallWait ==
    /\ posts + waits < MaxSemOps
    /\ \E c \in Cores, h \in BOOLEAN, t \in TimeoutsMs :
         /\ score[c].pc = "idle"
         /\ score' = [ score EXCEPT ![c] = SemCall("wait", h, t) ]
    /\ UNCHANGED <<mbVars, rbVars, bootVars, shVars, appVars, sem, sem0, posts, waits>>

\* A core calls amp_semaphore_post(sem).
SemCallPost ==
    /\ posts + waits < MaxSemOps
    /\ \E c \in Cores, h \in BOOLEAN :
         /\ score[c].pc = "idle"
         /\ score' = [ score EXCEPT ![c] = SemCall("post", h, 0) ]
    /\ UNCHANGED <<mbVars, rbVars, bootVars, shVars, appVars, sem, sem0, posts, waits>>

\* Lines 107-109: the loop body of amp_semaphore_wait after a failed try.
SemRetry ==
    /\ \E c \in Cores :
         /\ score[c].pc = "retry"
         /\ score' = [ score EXCEPT ![c] = LoopBody(score[c]) ]
    /\ UNCHANGED <<mbVars, rbVars, bootVars, shVars, appVars, sem, sem0, posts, waits>>

\* Lines 80-88 and 120-128: the null check, the load of count and the test
\* of the loaded value.
SemLoad ==
    /\ \E c \in Cores :
         /\ score[c].pc = "entry"
         /\ LET current == sem.count
                fails == IF score[c].op = "post"
                         THEN SemAtMax(current, sem.max_count)
                         ELSE current = 0
            IN  score' = [ score EXCEPT ![c] =
                    IF ~score[c].h \/ fails
                    THEN SemOutcome([ score[c] EXCEPT !.current = current ], -1)
                    ELSE [ score[c] EXCEPT !.pc = "cas", !.current = current ] ]
    /\ UNCHANGED <<mbVars, rbVars, bootVars, shVars, appVars, sem, sem0, posts, waits>>

\* Lines 90-92 and 130-132: atomic_cas(&sem->count, current, current -/+ 1);
\* on failure the while (1) loop reads count again.
SemCas ==
    /\ \E c \in Cores :
         /\ score[c].pc = "cas"
         /\ IF CasMatches(sem.count, score[c].current)
            THEN /\ sem' = [ sem EXCEPT !.count =
                               IF score[c].op = "post"
                               THEN UAdd(score[c].current, 1)
                               ELSE USub(score[c].current, 1) ]
                 /\ score' = [ score EXCEPT ![c] = SemOutcome(score[c], 0) ]
                 /\ posts' = IF score[c].op = "post" THEN posts + 1 ELSE posts
                 /\ waits' = IF score[c].op = "post" THEN waits ELSE waits + 1
            ELSE /\ score' = [ score EXCEPT ![c].pc = "entry" ]
                 /\ UNCHANGED <<sem, posts, waits>>
    /\ UNCHANGED <<mbVars, rbVars, bootVars, shVars, appVars, sem0>>

\* Shared-counter example: examples/shared-counter/shared_counter.c.  The
\* semaphore is the binary semaphore amp_semaphore_create(1, 1) of main
\* (line 132), the counters start at 0 (lines 127-129) and each core runs
\* increment_counter in a loop (lines 78-79 and 157-158).
CounterStart ==
    /\ shared = [ counter |-> 0, core0_increments |-> 0, core1_increments |-> 0 ]
    /\ app = [ c \in Cores |-> [ pc |-> "loop", i |-> 0, old_value |-> 0 ] ]

\* No mailbox example is running.
ExamplesParked ==
    /\ boxes = << >>
    /\ task = << >>

AppParked == CounterStart /\ ExamplesParked

\* timeout_ms of the amp_semaphore_wait in increment_counter (line 46).
CounterWaitMs == 1000

\* Lines 78-79 / 157-158 and line 46: the next iteration of the loop calls
\* increment_counter, which calls amp_semaphore_wait(g_counter_sem, 1000).
IncCallWait ==
    /\ \E c \in Cores :
         /\ app[c].pc = "loop"
         /\ app[c].i < MaxIncrements
         /\ score[c].pc = "idle"
         /\ score' = [ score EXCEPT ![c] = SemCall("wait", TRUE, CounterWaitMs) ]
         /\ app' = [ app EXCEPT ![c].pc = "wait" ]
    /\ UNCHANGED <<mbVars, rbVars, bootVars, shVars, shared, sem, sem0, posts, waits,
                   boxes, task>>

\* Lines 46-52: the wait has returned; on failure increment_counter
\* returns, otherwise the critical section starts with the load of counter.
IncAfterWait ==
    /\ \E c \in Cores :
         /\ app[c].pc = "wait"
         /\ score[c].pc = "idle"
         /\ IF score[c].ret # 0
            THEN app' = [ app EXCEPT ![c].pc = "loop", ![c].i = app[c].i + 1 ]
            ELSE app' = [ app EXCEPT ![c].pc = "store",
                                     ![c].old_value = shared.counter ]
    /\ UNCHANGED <<mbVars, rbVars, bootVars, shVars, semVars, shared, boxes, task>>

\* Line 53: g_shared_counter->counter = old_value + 1.
IncStore ==
    /\ \E c \in Cores :
         /\ app[c].pc = "store"
         /\ shared' = [ shared EXCEPT !.counter = app[c].old_value + 1 ]
         /\ app' = [ app EXCEPT ![c].pc = "own" ]
    /\ UNCHANGED <<mbVars, rbVars, bootVars, shVars, semVars, boxes, task>>

\* Lines 56-60: the increment of the core's own counter.
IncOwn ==
    /\ \E c \in Cores :
         /\ app[c].pc = "own"
         /\ shared' = IF c = 0
                      THEN [ shared EXCEPT !.core0_increments = @ + 1 ]
                      ELSE [ shared EXCEPT !.core1_increments = @ + 1 ]
         /\ app' = [ app EXCEPT ![c].pc = "release" ]
    /\ UNCHANGED <<mbVars, rbVars, bootVars, shVars, semVars, boxes, task>>

\* Lines 63-66: the barrier and the call of amp_semaphore_post.
IncCallPost ==
    /\ \E c \in Cores :
         /\ app[c].pc = "release"
         /\ score' = [ score EXCEPT ![c] = SemCall("post", TRUE, 0) ]
         /\ app' = [ app EXCEPT ![c].pc = "post" ]
    /\ UNCHANGED <<mbVars, rbVars, bootVars, shVars, shared, sem, sem0, posts, waits,
                   boxes, task>>

\* Line 67: the post has returned, and so does increment_counter.
IncReturn ==
    /\ \E c \in Cores :
         /\ app[c].pc = "post"
         /\ score[c].pc = "idle"
         /\ app' = [ app EXCEPT ![c].pc = "loop", ![c].i = app[c].i + 1 ]
    /\ UNCHANGED <<mbVars, rbVars, bootVars, shVars, semVars, shared, boxes, task>>

NextCounter ==
    \/ IncCallWait \/ IncAfterWait \/ IncStore \/ IncOwn \/ IncCallPost \/ IncReturn
    \/ SemLoad \/ SemCas \/ SemRetry

----------------------------------------------------------------------------
(* Example programs on mailboxes: examples/pingpong/pingpong.c and
   examples/hello-amp/hello_amp.c *)

\* msg_slots of the examples' mailboxes.  Both configure 4 slots
\* (pingpong.c line 119, hello_amp.c line 98); the model takes the largest
\* capacity the narrow index word supports, which, like 4, is never
\* filled by either program as long as no call times out.
ExampleSlots == Pow2(IdxBits - 1)

\* A message buffer of n units that has not been written.
ZeroMsg(n) == [ b \in 1 .. n |-> 0 ]

\* The locals of a call of amp_mailbox_send (op "send") or amp_mailbox_recv
\* (op "recv") with a valid handle and buffer: lines 132-134 and 151-153.
MboxCall(op, msg, ms) ==
    [ CoreIdle EXCEPT !.pc = "entry", !.op = op, !.msg = msg,
                      !.timeout_ms = ms, !.count = (ms * SpinsPerMs) % Word ]

\* One step of the call p on the mailbox m, whichever core makes it: the
\* steps of amp_mailbox_send / amp_mailbox_recv (SendLoadW .. SendRetry,
\* RecvLoadW .. RecvRetry) on a mailbox passed as an argument.  out holds
\* the message the call hands to its caller when this step returns 0 from
\* a receive.
MboxStep(m, p) ==
    IF p.pc = "retry"
    THEN LET q == LoopBody(p)
         IN  [ m |-> m, out |-> << >>,
               p |-> IF q.pc = "idle" THEN [ q EXCEPT !.i = 0, !.msg = NoMsg ] ELSE q ]
    ELSE IF p.op = "send"
    THEN CASE p.pc = "entry" ->
                [ m |-> m, out |-> << >>,
                  p |-> [ p EXCEPT !.pc = "load_r", !.w = m.write_idx ] ]
           [] p.pc = "load_r" ->
                [ m |-> m, out |-> << >>,
                  p |-> IF MboxIsFull(p.w, m.read_idx, m.msg_slots)
                        THEN SendOutcome([ p EXCEPT !.r = m.read_idx ], -1)
                        ELSE [ p EXCEPT !.pc = "copy", !.r = m.read_idx, !.i = 0 ] ]
           [] p.pc = "copy" /\ p.i < m.msg_size ->
                [ m |-> [ m EXCEPT !.data[MboxOffset(p.w, m.mask, m.msg_size, p.i)] =
                                       p.msg[p.i + 1] ],
                  out |-> << >>,
                  p |-> [ p EXCEPT !.i = p.i + 1 ] ]
           [] p.pc = "copy" /\ p.i = m.msg_size ->
                [ m |-> [ m EXCEPT !.write_idx = UAdd(p.w, 1) ], out |-> << >>,
                  p |-> SendOutcome(p, 0) ]
    ELSE CASE p.pc = "entry" ->
                [ m |-> m, out |-> << >>,
                  p |-> [ p EXCEPT !.pc = "load_r", !.w = m.write_idx ] ]
           [] p.pc = "load_r" ->
                [ m |-> m, out |-> << >>,
                  p |-> IF MboxIsEmpty(p.w, m.read_idx)
                        THEN RecvOutcome([ p EXCEPT !.r = m.read_idx ], -1)
                        ELSE [ p EXCEPT !.pc = "copy", !.r = m.read_idx, !.i = 0 ] ]
           [] p.pc = "copy" /\ p.i < m.msg_size ->
                [ m |-> m, out |-> << >>,
                  p |-> [ p EXCEPT
                            !.msg[p.i + 1] =
                                m.data[MboxOffset(p.r, m.mask, m.msg_size, p.i)],
                            !.i = p.i + 1 ] ]
           [] p.pc = "copy" /\ p.i = m.msg_size ->
                [ m |-> [ m EXCEPT !.read_idx = UAdd(p.r, 1) ], out |-> << p.msg >>,
                  p |-> RecvOutcome(p, 0) ]

\* A core of an example before its first mailbox call.  box is the
\* mailbox of the call in progress, got the messages its receives have
\* returned, failed the number of its calls that returned non-zero.
TaskStart ==
    [ pc |-> "loop", i |-> 0, box |-> 1, call |-> CoreIdle, got |-> << >>,
      failed |-> 0 ]

\* The core starts a call on mailbox b and continues at pc when it returns.
StartCall(t, pc, b, call) == [ t EXCEPT !.pc = pc, !.box = b, !.call = call ]

\* The last call of the core has returned: count it when it failed.
Returned(t) ==
    IF t.call.ret # 0 THEN [ t EXCEPT !.failed = t.failed + 1 ] ELSE t

\* A step of core c inside its mailbox call in progress.
ExampleCall(c) ==
    /\ task[c].call.pc # "idle"
    /\ LET s == MboxStep(boxes[task[c].box], task[c].call)
       IN  /\ boxes' = [ boxes EXCEPT ![task[c].box] = s.m ]
           /\ task' = [ task EXCEPT ![c].call = s.p,
                                    ![c].got = task[c].got \o s.out ]
    /\ UNCHANGED <<mbVars, rbVars, semVars, bootVars, shVars, shared, app>>

\* --- ping-pong -----------------------------------------------------------

\* msg_type_t, lines 30-34.
MSG_PING == 0
MSG_PONG == 1
MSG_DONE == 2

\* The timeouts of the example's receives and sends (lines 58, 69).
PingRecvMs == 2000
PingSendMs == 1000

\* g_mbox_to_core1 and g_mbox_to_core0 as indices of boxes.
ToCore1 == 1
ToCore0 == 2

\* sizeof(pingpong_msg_t) in units of one field: type, sequence, core_id.
PingMsgSize == 3

\* Lines 116-123 and the state of both cores when core 0 reaches line 148.
PingPongInit ==
    /\ boxes = [ b \in { ToCore1, ToCore0 } |->
                   amp_mailbox_create(PingMsgSize, ExampleSlots) ]
    /\ task = [ c \in Cores |-> TaskStart ]

\* main, lines 149-186: the step core 0 takes between two mailbox calls.
PingMain(t) ==
    LET WaitDone == StartCall(t, "done", ToCore0,
                              MboxCall("recv", ZeroMsg(PingMsgSize), PingRecvMs))
        SendPing(i) ==
            IF i < PingPongCount
            THEN StartCall([ t EXCEPT !.i = i ], "sent", ToCore1,
                           MboxCall("send", << MSG_PING, i, 0 >>, PingSendMs))
            ELSE [ WaitDone EXCEPT !.i = i ]
    IN  CASE t.pc = "loop" -> SendPing(t.i)
          [] t.pc = "sent" ->
               IF t.call.ret # 0
               THEN WaitDone
               ELSE StartCall(t, "recvd", ToCore0,
                              MboxCall("recv", ZeroMsg(PingMsgSize), PingRecvMs))
          [] t.pc = "recvd" ->
               IF t.call.ret = 0 THEN SendPing(t.i + 1) ELSE WaitDone
          [] t.pc = "done" -> [ t EXCEPT !.pc = "end" ]

\* core1_main, lines 55-86: the step core 1 takes between two mailbox calls.
PongMain(t) ==
    LET msg == t.got[Len(t.got)]
        WaitPing(i) ==
            IF i < PingPongCount
            THEN StartCall([ t EXCEPT !.i = i ], "recvd", ToCore1,
                           MboxCall("recv", ZeroMsg(PingMsgSize), PingRecvMs))
            ELSE StartCall([ t EXCEPT !.i = i ], "done", ToCore0,
                           MboxCall("send", << MSG_DONE, 0, 1 >>, PingSendMs))
    IN  CASE t.pc = "loop" -> WaitPing(t.i)
          [] t.pc = "recvd" ->
               IF t.call.ret = 0
               THEN IF msg[1] = MSG_PING
                    THEN StartCall(t, "sent", ToCore0,
                                   MboxCall("send", << MSG_PONG, msg[2], 1 >>,
                                            PingSendMs))
                    ELSE WaitPing(t.i + 1)
               ELSE StartCall(t, "done", ToCore0,
                              MboxCall("send", << MSG_DONE, 0, 1 >>, PingSendMs))
          [] t.pc = "sent" -> WaitPing(t.i + 1)
          [] t.pc = "done" -> [ t EXCEPT !.pc = "end" ]

\* Core c of the ping-pong example goes on after a call has returned.
PingPongProgram(c) ==
    /\ task[c].call.pc = "idle"
    /\ task[c].pc # "end"
    /\ task' = [ task EXCEPT ![c] = IF c = 0 THEN PingMain(Returned(task[c]))
                                             ELSE PongMain(Returned(task[c])) ]
    /\ UNCHANGED <<mbVars, rbVars, semVars, bootVars, shVars, shared, app, boxes>>

PingPongStep(c) == PingPongProgram(c) \/ ExampleCall(c)

NextPingPong == \E c \in Cores : PingPongStep(c)

\* --- hello ---------------------------------------------------------------

\* The timeout of the example's four mailbox calls (hello_amp.c line 52).
HelloMs == 1000

\* g_mailbox as an index of boxes.
GMailbox == 1

\* sizeof(hello_msg_t) in units of one field: core_id, message.
HelloMsgSize == 2

\* The message core c builds (lines 47-50 and 134-137): its core_id and its
\* text, "Hello from Core 1!" or "Hello from Core 0!", as a number that
\* differs between the cores and from the zero fill.
HelloMsg(c) == << c, c + 1 >>

\* Lines 96-100 and the state of both cores when core 0 reaches line 126:
\* core 1 has signalled ready (line 42) and is about to send.
HelloInit ==
    /\ boxes = [ b \in { GMailbox } |-> amp_mailbox_create(HelloMsgSize, ExampleSlots) ]
    /\ task = [ c \in Cores |-> TaskStart ]

\* main, lines 126-143: receive on g_mailbox, then send the response on it.
HelloMain(t) ==
    CASE t.pc = "loop" ->
           StartCall(t, "recvd", GMailbox,
                     MboxCall("recv", ZeroMsg(HelloMsgSize), HelloMs))
      [] t.pc = "recvd" ->
           StartCall(t, "sent", GMailbox, MboxCall("send", HelloMsg(0), HelloMs))
      [] t.pc = "sent" -> [ t EXCEPT !.pc = "end" ]

\* core1_main, lines 46-63: send the greeting on g_mailbox, then receive
\* on it.
HelloCore1(t) ==
    CASE t.pc = "loop" ->
           StartCall(t, "sent", GMailbox, MboxCall("send", HelloMsg(1), HelloMs))
      [] t.pc = "sent" ->
           StartCall(t, "recvd", GMailbox,
                     MboxCall("recv", ZeroMsg(HelloMsgSize), HelloMs))
      [] t.pc = "recvd" -> [ t EXCEPT !.pc = "end" ]

\* Core c of the hello example goes on after a call has returned.
HelloProgram(c) ==
    /\ task[c].call.pc = "idle"
    /\ task[c].pc # "end"
    /\ task' = [ task EXCEPT ![c] = IF c = 0 THEN HelloMain(Returned(task[c]))
                                             ELSE HelloCore1(Returned(task[c])) ]
    /\ UNCHANGED <<mbVars, rbVars, semVars, bootVars, shVars, shared, app, boxes>>

HelloStep(c) == HelloProgram(c) \/ ExampleCall(c)

NextHello == \E c \in Cores : HelloStep(c)

\* A core calls amp_semaphore_get_count(sem), sem valid or null.
SemCallGetCount ==
    /\ \E c \in Cores, h \in BOOLEAN :
         /\ score[c].pc = "idle"
         /\ score' = [ score EXCEPT ![c] = [ SemIdle EXCEPT !.pc = "get", !.op = "get_count",
                                                            !.h = h ] ]
    /\ UNCHANGED <<mbVars, rbVars, bootVars, shVars, appVars, sem, sem0, posts, waits>>

\* Lines 141-145: the null check, the load of count, return.
SemGetCount ==
    /\ \E c \in Cores :
         /\ score[c].pc = "get"
         /\ score' = [ score EXCEPT ![c] =
                         [ score[c] EXCEPT !.pc = "idle",
                                           !.ret = IF score[c].h THEN sem.count ELSE 0 ] ]
    /\ UNCHANGED <<mbVars, rbVars, bootVars, shVars, appVars, sem, sem0, posts, waits>>

NextSemaphore ==
    \/ SemCallTryWait \/ SemCallWait \/ SemCallPost \/ SemLoad \/ SemCas \/ SemRetry

----------------------------------------------------------------------------
(* Boot handshake: runtime/src/amp_boot.c *)

\* amp_config.h line 25.
AMP_CORE_COUNT == 2

\* Bit i of the word x.
BitSet(x, i) == Shr(x, i) % 2 = 1

\* A core outside the amp_boot_* functions.  core_id and timeout_ms are the
\* arguments of its last amp_boot_core / amp_boot_wait_core_ready call,
\* flags the value of core_ready_flags it loaded, calls the number of calls
\* it has made.
BootIdle ==
    [ pc |-> "idle", op |-> "none", core_id |-> 0, timeout_ms |-> 0, count |-> 0,
      flags |-> 0, ret |-> "none", calls |-> 0 ]

\* The shared word of core 1 in the zero-filled arena: mem is the value in
\* memory, pend tells that core 1's store of 1 has been issued and is not
\* yet visible to core 0, wrote that core 1 has issued it, sig that core 1
\* has called amp_boot_signal_ready, seen the value core 0 read after its
\* wait for core 1 succeeded (empty until it reads).
PayloadZero == [ mem |-> 0, pend |-> FALSE, wrote |-> FALSE, sig |-> FALSE, seen |-> <<>> ]

\* core_ready_flags is 0 at reset (line 11); core 0 is in main, about to
\* call amp_boot_init as every example does first; core 1 is held in reset
\* until core 0 launches it.
BootInit ==
    /\ core_ready_flags = 0
    /\ payload = PayloadZero
    /\ boot = [ c \in Cores |-> [ BootIdle EXCEPT !.pc = IF c = 0 THEN "main" ELSE "off" ] ]

BootParked ==
    /\ core_ready_flags = 0
    /\ payload = PayloadZero
    /\ boot = [ c \in Cores |-> [ BootIdle EXCEPT !.pc = "off" ] ]

\* The return of a boot call.
BootReturn(b, status) == [ b EXCEPT !.pc = "idle", !.ret = status, !.count = 0 ]

\* A call of amp_boot_init: core 0 at the start of main, core 1 at any time.
BootInitCall ==
    /\ \E c \in Cores :
         /\ \/ c = 0 /\ boot[c].pc = "main"
            \/ c # 0 /\ boot[c].pc = "idle" /\ boot[c].calls < MaxBootCalls
         /\ boot' = [ boot EXCEPT ![c] = [ boot[c] EXCEPT
                          !.pc = "init", !.op = "init",
                          !.calls = IF c = 0 THEN 0 ELSE boot[c].calls + 1 ] ]
    /\ UNCHANGED <<mbVars, rbVars, semVars, appVars, shVars, core_ready_flags, payload>>

\* amp_boot_init without the core check.
BootInitClear_AnyCore ==
    /\ \E c \in Cores :
         /\ boot[c].pc = "init"
         /\ core_ready_flags' = 0
         /\ boot' = [ boot EXCEPT ![c].pc = "init_load" ]
    /\ UNCHANGED <<mbVars, rbVars, semVars, appVars, shVars, payload>>

\* Lines 18-24: the core check, then core_ready_flags = 0.
BootInitClear ==
    /\ \E c \in Cores :
         /\ boot[c].pc = "init"
         /\ IF c # 0
            THEN /\ boot' = [ boot EXCEPT ![c] = BootReturn(boot[c], "INVALID_CORE") ]
                 /\ UNCHANGED core_ready_flags
            ELSE /\ core_ready_flags' = 0
                 /\ boot' = [ boot EXCEPT ![c].pc = "init_load" ]
    /\ UNCHANGED <<mbVars, rbVars, semVars, appVars, shVars, payload>>

\* Line 27, first half: the load of core_ready_flags |= (1 << AMP_CORE0).
BootInitLoad ==
    /\ \E c \in Cores :
         /\ boot[c].pc = "init_load"
         /\ boot' = [ boot EXCEPT ![c].pc = "init_store", ![c].flags = core_ready_flags ]
    /\ UNCHANGED <<mbVars, rbVars, semVars, appVars, shVars, core_ready_flags, payload>>

\* Lines 27-29: the store of core_ready_flags |= (1 << AMP_CORE0); return.
BootInitStore ==
    /\ \E c \in Cores :
         /\ boot[c].pc = "init_store"
         /\ core_ready_flags' = BitOr(boot[c].flags, Pow2(0))
         /\ boot' = [ boot EXCEPT ![c] = BootReturn(boot[c], "SUCCESS") ]
    /\ UNCHANGED <<mbVars, rbVars, semVars, appVars, shVars, payload>>

\* Lines 36-54: amp_boot_core(core_id, entry, sp) called by core 0 after
\* amp_boot_init; the platform hook releases the core from reset.
BootCore ==
    /\ boot[0].pc = "idle"
    /\ boot[0].calls < MaxBootCalls
    /\ \E id \in 0 .. AMP_CORE_COUNT :
         IF id >= AMP_CORE_COUNT \/ id = 0
         THEN boot' = [ boot EXCEPT ![0] =
                          [ BootReturn(boot[0], "INVALID_CORE") EXCEPT
                              !.op = "core", !.core_id = id, !.calls = boot[0].calls + 1 ] ]
         ELSE boot' = [ boot EXCEPT
                          ![0] = [ BootReturn(boot[0], "SUCCESS") EXCEPT
                                     !.op = "core", !.core_id = id,
                                     !.calls = boot[0].calls + 1 ],
                          ![id] = IF boot[id].pc = "off"
                                  THEN [ boot[id] EXCEPT !.pc = "idle" ]
                                  ELSE boot[id] ]
    /\ UNCHANGED <<mbVars, rbVars, semVars, appVars, shVars, core_ready_flags, payload>>

\* A call of amp_boot_signal_ready by a running core.
BootSignalCall ==
    /\ \E c \in Cores :
         /\ boot[c].pc = "idle"
         /\ boot[c].calls < MaxBootCalls
         /\ boot' = [ boot EXCEPT ![c] = [ boot[c] EXCEPT !.pc = "sig_load", !.op = "signal",
                                                       !.calls = boot[c].calls + 1 ] ]
         /\ payload' = IF c = 1 THEN [ payload EXCEPT !.sig = TRUE ] ELSE payload
    /\ UNCHANGED <<mbVars, rbVars, semVars, appVars, shVars, core_ready_flags>>

\* Lines 86-87, first half: core_id = amp_get_core_id() and the load of
\* core_ready_flags |= (1 << core_id).
BootSignalLoad ==
    /\ \E c \in Cores :
         /\ boot[c].pc = "sig_load"
         /\ boot' = [ boot EXCEPT ![c].pc = "sig_store", ![c].flags = core_ready_flags ]
    /\ UNCHANGED <<mbVars, rbVars, semVars, appVars, shVars, core_ready_flags, payload>>

\* Line 87: the store of core_ready_flags |= (1 << core_id).
BootSignalStore ==
    /\ \E c \in Cores :
         /\ boot[c].pc = "sig_store"
         /\ core_ready_flags' = BitOr(boot[c].flags, Pow2(c))
         /\ boot' = [ boot EXCEPT ![c].pc = "sig_dmb" ]
    /\ UNCHANGED <<mbVars, rbVars, semVars, appVars, shVars, payload>>

\* Lines 89-91: AMP_DMB(), return.  The barrier completes when the
\* stores the core issued before it are visible to the other core.
BootSignalDmb ==
    /\ \E c \in Cores :
         /\ boot[c].pc = "sig_dmb"
         /\ payload' = IF c = 1 /\ payload.pend
                        THEN [ payload EXCEPT !.mem = 1, !.pend = FALSE ]
                        ELSE payload
         /\ boot' = [ boot EXCEPT ![c] = BootReturn(boot[c], "void") ]
    /\ UNCHANGED <<mbVars, rbVars, semVars, appVars, shVars, core_ready_flags>>

\* A call of amp_boot_wait_core_ready(core_id, timeout_ms); lines 61-71.
BootWaitCall ==
    /\ \E c \in Cores, id \in 0 .. AMP_CORE_COUNT, t \in TimeoutsMs :
         /\ boot[c].pc = "idle"
         /\ boot[c].calls < MaxBootCalls
         /\ boot' = [ boot EXCEPT ![c] =
                IF id >= AMP_CORE_COUNT
                THEN [ BootReturn(boot[c], "INVALID_CORE") EXCEPT
                         !.op = "wait", !.core_id = id, !.timeout_ms = t,
                         !.calls = boot[c].calls + 1 ]
                ELSE [ boot[c] EXCEPT !.pc = "wait", !.op = "wait", !.core_id = id,
                                      !.timeout_ms = t,
                                      !.count = (t * SpinsPerMs) % Word,
                                      !.calls = boot[c].calls + 1 ] ]
    /\ UNCHANGED <<mbVars, rbVars, semVars, appVars, shVars, core_ready_flags, payload>>

\* Lines 72-78: one evaluation of the loop condition, which loads
\* core_ready_flags, and of the loop body.
BootWaitPoll ==
    /\ \E c \in Cores :
         /\ boot[c].pc = "wait"
         /\ LET flags == core_ready_flags
                b == [ boot[c] EXCEPT !.flags = flags ]
            IN  boot' = [ boot EXCEPT ![c] =
                    IF BitAnd(flags, Pow2(b.core_id)) # 0
                    THEN BootReturn(b, "SUCCESS")
                    ELSE IF b.timeout_ms > 0 /\ USub(b.count, 1) = 0
                         THEN BootReturn(b, "TIMEOUT")
                         ELSE [ b EXCEPT !.count = IF b.timeout_ms > 0
                                                   THEN USub(b.count, 1) ELSE b.count ] ]
    /\ UNCHANGED <<mbVars, rbVars, semVars, appVars, shVars, core_ready_flags, payload>>

NextBoot ==
    \/ BootInitCall \/ BootInitClear \/ BootInitLoad \/ BootInitStore \/ BootCore
    \/ BootSignalCall \/ BootSignalLoad \/ BootSignalStore \/ BootSignalDmb
    \/ BootWaitCall \/ BootWaitPoll

\* Publication through the ready bit.  Core 1, once running and before it
\* calls amp_boot_signal_ready, stores 1 to its shared word.  The store is
\* an ordinary store to shared memory: it becomes visible to core 0 at
\* some later moment of the hardware's choosing, and at the latest when
\* core 1 completes a data memory barrier (amp_barriers.h: AMP_DMB).
PayloadWrite ==
    /\ boot[1].pc = "idle"
    /\ ~payload.wrote /\ ~payload.sig
    /\ payload' = [ payload EXCEPT !.pend = TRUE, !.wrote = TRUE ]
    /\ UNCHANGED <<mbVars, rbVars, semVars, appVars, shVars, core_ready_flags, boot>>

\* The pending store reaches memory.
PayloadDrain ==
    /\ payload.pend
    /\ payload' = [ payload EXCEPT !.mem = 1, !.pend = FALSE ]
    /\ UNCHANGED <<mbVars, rbVars, semVars, appVars, shVars, core_ready_flags, boot>>

\* Core 0, after its amp_boot_wait_core_ready(AMP_CORE1, t) has returned
\* success, loads the shared word of core 1.
PayloadRead ==
    /\ boot[0].pc = "idle" /\ boot[0].op = "wait" /\ boot[0].core_id = 1
    /\ boot[0].ret = "SUCCESS"
    /\ payload.seen = <<>>
    /\ payload' = [ payload EXCEPT !.seen = <<payload.mem>> ]
    /\ UNCHANGED <<mbVars, rbVars, semVars, appVars, shVars, core_ready_flags, boot>>

NextPublish == NextBoot \/ PayloadWrite \/ PayloadDrain \/ PayloadRead

----------------------------------------------------------------------------
(* Shared arena: runtime/src/amp_shmem.c *)

\* The base addresses and sizes passed to amp_shmem_init in the model: an
\* 8-aligned region that fits the address space (the examples pass
\* 0x20040000 and 16 KiB), its size a multiple of 8 or not.
ShmemBases == { 8 }
ShmemSizes == { 8, 12, 16 }

\* g_shmem_pool = {0} (line 16).
PoolZero == [ base |-> 0, size |-> 0, allocated |-> 0 ]

\* Lines 21-35: amp_shmem_init(base, size) applied to the pool.
amp_shmem_init(pool, base, size) ==
    IF base = 0 \/ size = 0
    THEN pool
    ELSE [ base |-> base, size |-> size, allocated |-> 0 ]

\* Line 48: size = (size + 7) & ~((size_t)7), in size_t.
AlignUp(size) == BitAnd((size + 7) % SizeWord, SizeWord - 8)

\* Lines 41-59: amp_shmem_alloc(size) applied to the pool: whether it
\* returns non-null, the address returned and the pool afterwards.
amp_shmem_alloc(pool, size) ==
    IF size = 0 \/ pool.base = 0
    THEN [ ok |-> FALSE, ptr |-> 0, pool |-> pool ]
    ELSE LET sz == AlignUp(size)
         IN  IF (pool.allocated + sz) % SizeWord > pool.size
             THEN [ ok |-> FALSE, ptr |-> 0, pool |-> pool ]
             ELSE [ ok |-> TRUE,
                    ptr |-> (pool.base + pool.allocated) % SizeWord,
                    pool |-> [ pool EXCEPT !.allocated = (pool.allocated + sz) % SizeWord ] ]

NoAlloc == [ called |-> FALSE, size |-> 0, before |-> PoolZero, ok |-> FALSE, ptr |-> 0 ]

\* No create call made yet.
NoCreate ==
    [ kind |-> "none", null |-> FALSE, a |-> 0, b |-> 0, ok |-> FALSE,
      before |-> PoolZero, obj |-> << >> ]

ShmemStart ==
    /\ g_shmem_pool = PoolZero
    /\ allocs = << >>
    /\ last_alloc = NoAlloc
    /\ created = NoCreate
    /\ released = 0

\* amp_shmem_init(base, size), called once on the primary core (a second
\* call on a live arena is excluded by the interface).
ShmemInit ==
    /\ g_shmem_pool.base = 0
    /\ \E base \in ShmemBases \cup { 0 }, size \in ShmemSizes \cup { 0 } :
         g_shmem_pool' = amp_shmem_init(g_shmem_pool, base, size)
    /\ UNCHANGED <<mbVars, rbVars, semVars, appVars, bootVars, allocs, last_alloc, created, released>>

\* amp_shmem_alloc(size) for any size_t size.
ShmemAlloc ==
    /\ Len(allocs) < MaxAllocs
    /\ \E size \in 0 .. SizeWord - 1 :
         LET res == amp_shmem_alloc(g_shmem_pool, size) IN
           /\ g_shmem_pool' = res.pool
           /\ last_alloc' = [ called |-> TRUE, size |-> size, before |-> g_shmem_pool,
                              ok |-> res.ok, ptr |-> res.ptr ]
           /\ allocs' = IF res.ok THEN Append(allocs, <<size, res.ptr>>) ELSE allocs
    /\ UNCHANGED <<mbVars, rbVars, semVars, appVars, bootVars, created, released>>

NextShmem == ShmemInit \/ ShmemAlloc

----------------------------------------------------------------------------
(* Object creation: amp_mailbox_create, amp_ringbuf_create *)

\* sizeof(struct amp_mailbox_s): five uint32_t fields before data[].
MboxHeaderSize == 20

\* sizeof(struct amp_ringbuf_s): four uint32_t fields before data[].
RbHeaderSize == 16

\* The arena sizes at the time of a create call: one too small for any
\* control block, one with room for a control block and a few bytes.
CreatePoolSizes == { 8, MboxHeaderSize + 4 }

\* amp_mailbox.c line 43: sizeof(struct amp_mailbox_s) + (msg_size * slots),
\* the product in uint32_t, the sum in size_t.
MboxTotalSize(msg_size, slots) == (MboxHeaderSize + ((msg_size * slots) % Word)) % SizeWord

\* amp_ringbuf.c line 30: sizeof(struct amp_ringbuf_s) + size, in size_t.
RbTotalSize(size) == (RbHeaderSize + size) % SizeWord

\* amp_mailbox.c lines 24-57: amp_mailbox_create(config) on the arena
\* `pool`; null tells that config is a null pointer.  alloc is the
\* amp_shmem_alloc call it made, if it made one.
MailboxCreate(pool, null, msg_size, msg_slots) ==
    IF null \/ msg_size = 0 \/ msg_slots = 0
    THEN [ ok |-> FALSE, obj |-> << >>, pool |-> pool, alloc |-> << >> ]
    ELSE LET total == MboxTotalSize(msg_size, RoundUpPow2(msg_slots))
             res   == amp_shmem_alloc(pool, total)
         IN  IF ~res.ok
             THEN [ ok |-> FALSE, obj |-> << >>, pool |-> res.pool, alloc |-> <<total, res>> ]
             ELSE [ ok |-> TRUE, obj |-> amp_mailbox_create(msg_size, msg_slots),
                    pool |-> res.pool, alloc |-> <<total, res>> ]

\* amp_ringbuf.c lines 23-43: amp_ringbuf_create(size) on the arena `pool`.
RingbufCreate(pool, size) ==
    IF ~RbSizeOk(size)
    THEN [ ok |-> FALSE, obj |-> << >>, pool |-> pool, alloc |-> << >> ]
    ELSE LET total == RbTotalSize(size)
             res   == amp_shmem_alloc(pool, total)
         IN  IF ~res.ok
             THEN [ ok |-> FALSE, obj |-> << >>, pool |-> res.pool, alloc |-> <<total, res>> ]
             ELSE [ ok |-> TRUE, obj |-> amp_ringbuf_create(size),
                    pool |-> res.pool, alloc |-> <<total, res>> ]

\* The arena variables after a create call with outcome r.
CreateEffect(r) ==
    /\ g_shmem_pool' = r.pool
    /\ IF r.alloc = << >>
       THEN UNCHANGED <<allocs, last_alloc>>
       ELSE /\ last_alloc' = [ called |-> TRUE, size |-> r.alloc[1], before |-> g_shmem_pool,
                               ok |-> r.alloc[2].ok, ptr |-> r.alloc[2].ptr ]
            /\ allocs' = IF r.alloc[2].ok
                         THEN Append(allocs, <<r.alloc[1], r.alloc[2].ptr>>)
                         ELSE allocs

\* A call of amp_mailbox_create with any configuration: a null pointer,
\* or any two uint32_t values.
CreateMailbox ==
    /\ Len(allocs) < MaxAllocs
    /\ \E null \in BOOLEAN, msg_size \in 0 .. Word - 1, msg_slots \in 0 .. Word - 1 :
         LET r == MailboxCreate(g_shmem_pool, null, msg_size, msg_slots) IN
           /\ CreateEffect(r)
           /\ created' = [ kind |-> "mailbox", null |-> null,
                           a |-> IF null THEN 0 ELSE msg_size,
                           b |-> IF null THEN 0 ELSE msg_slots,
                           ok |-> r.ok, before |-> g_shmem_pool, obj |-> r.obj ]
    /\ UNCHANGED <<mbVars, rbVars, semVars, appVars, bootVars, released>>

\* A call of amp_ringbuf_create with any size_t size.
CreateRingbuf ==
    /\ Len(allocs) < MaxAllocs
    /\ \E size \in 0 .. SizeWord - 1 :
         LET r == RingbufCreate(g_shmem_pool, size) IN
           /\ CreateEffect(r)
           /\ created' = [ kind |-> "ringbuf", null |-> FALSE, a |-> size, b |-> 0,
                           ok |-> r.ok, before |-> g_shmem_pool, obj |-> r.obj ]
    /\ UNCHANGED <<mbVars, rbVars, semVars, appVars, bootVars, released>>

NextCreate == CreateMailbox \/ CreateRingbuf

----------------------------------------------------------------------------
(* Destroy and free *)

\* amp_mailbox.c lines 62-66: amp_mailbox_destroy(mbox) applied to the
\* mailbox; the body is (void)mbox.
amp_mailbox_destroy(m) == m

\* amp_ringbuf.c lines 48-52: amp_ringbuf_destroy(rb); the body is (void)rb.
amp_ringbuf_destroy(r) == r

\* amp_semaphore.c lines 69-73: amp_semaphore_destroy(sem); the body is
\* (void)sem.
amp_semaphore_destroy(sm) == sm

\* A free that gives the arena back from ptr on.
amp_shmem_free_Reclaims(pool, ptr) ==
    IF pool.base # 0 /\ ptr >= pool.base /\ ptr < pool.base + pool.allocated
    THEN [ pool EXCEPT !.allocated = ptr - pool.base ]
    ELSE pool

\* amp_shmem.c lines 65-71: amp_shmem_free(ptr) applied to the pool; the
\* body is (void)ptr.
amp_shmem_free(pool, ptr) == pool

\* A core calls amp_mailbox_destroy, with the handle or with null, at any
\* moment, also while the other core is inside a mailbox call.
MailboxDestroy ==
    /\ released < MaxReleases
    /\ \E h \in BOOLEAN : mbox' = IF h THEN amp_mailbox_destroy(mbox) ELSE mbox
    /\ released' = released + 1
    /\ UNCHANGED <<prod, cons, sent, received, rbVars, semVars, appVars, bootVars,
                   g_shmem_pool, allocs, last_alloc, created>>

RingbufDestroy ==
    /\ released < MaxReleases
    /\ \E h \in BOOLEAN : rb' = IF h THEN amp_ringbuf_destroy(rb) ELSE rb
    /\ released' = released + 1
    /\ UNCHANGED <<wr, rd, written, readout, mbVars, semVars, appVars, bootVars,
                   g_shmem_pool, allocs, last_alloc, created>>

SemaphoreDestroy ==
    /\ released < MaxReleases
    /\ \E h \in BOOLEAN : sem' = IF h THEN amp_semaphore_destroy(sem) ELSE sem
    /\ released' = released + 1
    /\ UNCHANGED <<sem0, score, posts, waits, mbVars, rbVars, appVars, bootVars,
                   g_shmem_pool, allocs, last_alloc, created>>

\* The pointers passed to amp_shmem_free: null, the addresses handed out
\* by amp_shmem_alloc, and an address that was never handed out.
FreeArgs == { 0, SizeWord - 1 } \cup { allocs[k][2] : k \in 1 .. Len(allocs) }

\* amp_shmem_free(ptr) with any of these pointers.
ShmemFree ==
    /\ released < MaxReleases
    /\ \E ptr \in FreeArgs : g_shmem_pool' = amp_shmem_free(g_shmem_pool, ptr)
    /\ released' = released + 1
    /\ UNCHANGED <<mbVars, rbVars, semVars, appVars, bootVars, allocs, last_alloc, created>>

----------------------------------------------------------------------------
(* Specifications: each runs one primitive from its state after creation, *)
(* the others stay as created.                                            *)

InitPingPong ==
    /\ PingPongInit /\ CounterStart
    /\ MailboxParked /\ RingbufParked /\ SemaphoreParked /\ BootParked /\ ShmemStart

\* Each core is a processor of its own and keeps executing.
SpecPingPong ==
    /\ InitPingPong /\ [][NextPingPong]_vars
    /\ \A c \in Cores : WF_vars(PingPongStep(c))

InitHello ==
    /\ HelloInit /\ CounterStart
    /\ MailboxParked /\ RingbufParked /\ SemaphoreParked /\ BootParked /\ ShmemStart

SpecHello == InitHello /\ [][NextHello]_vars

InitCounter == SemaphoreParked /\ AppParked /\ MailboxParked /\ RingbufParked /\ BootParked /\ ShmemStart

SpecCounter == InitCounter /\ [][NextCounter]_vars

InitSemaphore == SemaphoreInit /\ MailboxParked /\ RingbufParked /\ AppParked /\ BootParked /\ ShmemStart

SpecSemaphore == InitSemaphore /\ [][NextSemaphore]_vars

InitRingbuf == RingbufInit /\ MailboxParked /\ SemaphoreParked /\ AppParked /\ BootParked /\ ShmemStart

SpecRingbuf == InitRingbuf /\ [][NextRingbuf]_vars

SpecRingbufAll == InitRingbuf /\ [][NextRingbufAll]_vars

InitMailbox == MailboxInit /\ RingbufParked /\ SemaphoreParked /\ AppParked /\ BootParked /\ ShmemStart

SpecMailbox == InitMailbox /\ [][NextMailbox]_vars

InitBoot ==
    BootInit /\ MailboxParked /\ RingbufParked /\ SemaphoreParked /\ AppParked /\ ShmemStart

SpecBoot == InitBoot /\ [][NextBoot]_vars

SpecPublish == InitBoot /\ [][NextPublish]_vars

InitShmem ==
    ShmemStart /\ MailboxParked /\ RingbufParked /\ SemaphoreParked /\ AppParked /\ BootParked

SpecShmem == InitShmem /\ [][NextShmem]_vars

\* The create calls on an arena that amp_shmem_init has set up.
InitCreate ==
    /\ \E size \in CreatePoolSizes :
         g_shmem_pool = amp_shmem_init(PoolZero, 8, size)
    /\ allocs = << >>
    /\ last_alloc = NoAlloc
    /\ created = NoCreate
    /\ released = 0
    /\ MailboxParked /\ RingbufParked /\ SemaphoreParked /\ AppParked /\ BootParked

SpecCreate == InitCreate /\ [][NextCreate]_vars

\* A mailbox and a semaphore that the run does not create: no core is in
\* or enters one of their calls.
MailboxOff ==
    /\ mbox = amp_mailbox_create(MsgSize, 1)
    /\ prod = [ CoreIdle EXCEPT !.pc = "off" ]
    /\ cons = [ CoreIdle EXCEPT !.pc = "off" ]
    /\ sent = << >>
    /\ received = << >>

RingbufOff ==
    /\ rb = amp_ringbuf_create(1)
    /\ wr = [ RbIdle EXCEPT !.pc = "off" ]
    /\ rd = [ RbIdle EXCEPT !.pc = "off" ]
    /\ written = << >>
    /\ readout = << >>

SemaphoreOff ==
    /\ sem = amp_semaphore_create(1, 1)
    /\ sem0 = 1
    /\ score = [ c \in Cores |-> [ SemIdle EXCEPT !.pc = "off" ] ]
    /\ posts = 0
    /\ waits = 0

\* The timed waits under fair scheduling.  A run exercises a mailbox of
\* one slot or a binary semaphore; each core is a processor of its own, so
\* a core that is inside a call keeps executing it (weak fairness of every
\* core's steps), while nothing obliges a core to make a call.
InitWaits ==
    /\ \/ MailboxParked /\ SemaphoreOff
       \/ MailboxOff /\ SemaphoreParked
    /\ BootParked /\ RingbufParked /\ AppParked /\ ShmemStart

\* The steps of the producer and of the consumer inside a mailbox call.
ProdStep == SendLoadW \/ SendLoadR \/ SendCopy \/ SendPublish \/ SendRetry

ConsStep == RecvLoadW \/ RecvLoadR \/ RecvCopy \/ RecvRelease \/ RecvRetry

\* The calls of a run are the blocking ones and the posts they wait for,
\* a few of them: enough for the mailbox to fill and to drain and for
\* count to reach 0 and max_count.
NextWaits ==
    \/ (Len(sent) < WaitSends /\ CallSend) \/ CallRecv \/ ProdStep \/ ConsStep
    \/ (posts + waits < WaitSemOps /\ SemCallWait)
    \/ (posts + waits < WaitSemOps /\ SemCallPost)
    \/ SemLoad \/ SemCas \/ SemRetry

\* The steps of core c inside a semaphore call or a boot call.
SemStep(c) == (SemLoad \/ SemCas \/ SemRetry) /\ score'[c] # score[c]

BootStep(c) ==
    /\ \/ BootInitClear \/ BootInitLoad \/ BootInitStore
       \/ BootSignalLoad \/ BootSignalStore \/ BootSignalDmb \/ BootWaitPoll
    /\ boot'[c] # boot[c]

FairCores ==
    /\ WF_vars(ProdStep)
    /\ WF_vars(ConsStep)
    /\ \A c \in Cores : WF_vars(SemStep(c)) /\ WF_vars(BootStep(c))

SpecWaits == InitWaits /\ [][NextWaits]_vars /\ FairCores

\* The mailbox, the semaphore and the boot handshake of the specifications
\* above, each with every core making progress in the call it is in.
\* The non-blocking calls.  A run exercises one object: a mailbox, a
\* semaphore or a ring buffer; on it each core makes try_* calls and pure
\* loads while the other core does whatever the interface lets it do.
InitTry ==
    /\ \/ MailboxInit /\ SemaphoreOff /\ RingbufOff
       \/ MailboxOff /\ SemaphoreInit /\ RingbufOff
       \/ MailboxOff /\ SemaphoreOff /\ RingbufInit
    /\ BootParked /\ AppParked /\ ShmemStart

NextTry ==
    \/ CallTrySend \/ SendLoadW \/ SendLoadR \/ SendCopy \/ SendPublish
    \/ CallTryRecv \/ RecvLoadW \/ RecvLoadR \/ RecvCopy \/ RecvRelease
    \/ SemCallTryWait \/ SemCallPost \/ SemLoad \/ SemCas
    \/ SemCallGetCount \/ SemGetCount
    \/ NextRingbuf
    \/ RbCallAvailable \/ RbCallFreeSpace \/ RbGetLoadW \/ RbGetLoadR

SpecTry == InitTry /\ [][NextTry]_vars

\* Destroy and free among the other calls.  A run exercises one object
\* with its non-blocking calls, or the arena with amp_shmem_init and
\* amp_shmem_alloc calls up to the first that succeeds, and the destroy
\* functions and amp_shmem_free are called at any moment in between.
ArenaInUse == prod.pc = "off" /\ wr.pc = "off" /\ \A c \in Cores : score[c].pc = "off"

InitDestroy ==
    /\ \/ MailboxInit /\ SemaphoreOff /\ RingbufOff
       \/ MailboxOff /\ SemaphoreInit /\ RingbufOff
       \/ MailboxOff /\ SemaphoreOff /\ RingbufInit
       \/ MailboxOff /\ SemaphoreOff /\ RingbufOff
    /\ BootParked /\ AppParked /\ ShmemStart

NextDestroy ==
    \/ (Len(sent) < DestroyOps /\ CallTrySend)
    \/ SendLoadW \/ SendLoadR \/ SendCopy \/ SendPublish
    \/ CallTryRecv \/ RecvLoadW \/ RecvLoadR \/ RecvCopy \/ RecvRelease
    \/ (posts + waits < DestroyOps /\ SemCallTryWait)
    \/ (posts + waits < DestroyOps /\ SemCallPost)
    \/ SemLoad \/ SemCas
    \/ (Len(written) < DestroyOps /\ CallWrite)
    \/ WriteLoadW \/ WriteLoadR \/ WriteLoadIdx \/ WriteCopy \/ WritePublish
    \/ CallRead \/ ReadLoadW \/ ReadLoadR \/ ReadLoadIdx \/ ReadCopy \/ ReadRelease
    \/ (ArenaInUse /\ ShmemInit)
    \/ (ArenaInUse /\ allocs = << >> /\ ShmemAlloc)
    \/ MailboxDestroy \/ RingbufDestroy \/ SemaphoreDestroy \/ ShmemFree

SpecDestroy == InitDestroy /\ [][NextDestroy]_vars

\* The two single-producer single-consumer objects with every call of
\* their interfaces.  A run exercises a mailbox or a ring buffer.
InitSpsc ==
    /\ \/ MailboxInit /\ RingbufOff
       \/ MailboxOff /\ RingbufInit
    /\ SemaphoreParked /\ BootParked /\ AppParked /\ ShmemStart

NextSpsc == NextMailbox \/ NextRingbufAll

SpecSpsc == InitSpsc /\ [][NextSpsc]_vars

SpecMailboxFair == SpecMailbox /\ FairCores

SpecSemaphoreFair == SpecSemaphore /\ FairCores

SpecBootFair == SpecBoot /\ FairCores

----------------------------------------------------------------------------
(* Mailbox properties. *)

\* C1: in every reachable state of one producer and one consumer, under
\* every interleaving of their loads, byte copies and stores, the unsigned
\* difference write_idx - read_idx is at most msg_slots (and at least 0).
C1_MailboxCapacity ==
    /\ USub(mbox.write_idx, mbox.read_idx) >= 0
    /\ USub(mbox.write_idx, mbox.read_idx) <= mbox.msg_slots

\* C1 witness: the mailbox is full, write_idx has wrapped through the word
\* while read_idx has not, and the consumer is in the middle of a receive.
C1_Witness ==
    /\ USub(mbox.write_idx, mbox.read_idx) = mbox.msg_slots
    /\ mbox.write_idx < mbox.read_idx
    /\ prod.pc = "load_r"
    /\ cons.pc = "load_r"

\* s is a prefix of t.
IsPrefix(s, t) ==
    /\ Len(s) <= Len(t)
    /\ \A k \in 1 .. Len(s) : s[k] = t[k]

\* C2: at every moment the messages returned by successful receives are a
\* prefix of the messages accepted by successful sends: same order, none
\* skipped, duplicated or altered.
C2_MailboxFifo == IsPrefix(received, sent)

\* C2 witness: a one-slot mailbox has carried three messages while the
\* producer is already copying the next one.
C2_Witness ==
    /\ mbox.msg_slots = 1
    /\ Len(received) = 3
    /\ prod.pc = "copy"
    /\ prod.i = 1

\* C3: a try_recv with valid arguments reports empty exactly when the
\* unsigned difference of the indices it loaded is 0.
C3_EmptyIffNoPending ==
    (cons.pc = "idle" /\ cons.op = "try_recv" /\ cons.h /\ cons.buf)
        => ((cons.ret = -1) <=> (USub(cons.w, cons.r) = 0))

----------------------------------------------------------------------------
(* Ring-buffer properties. *)

\* C4: at every moment the bytes returned by the reads, concatenated, are
\* a prefix of the bytes accepted by the writes, concatenated.
C4_RingbufFifo == IsPrefix(readout, written)

\* C4 witness: bytes that were stored across the end of the data array
\* (the write started at the last position and went on at position 0) have
\* been read back, while the writer is copying again.
C4_Witness ==
    /\ rb.size = 2
    /\ Len(readout) >= 3
    /\ rd.op = "read" /\ rd.pc = "idle" /\ rd.ret = 2 /\ BitAnd(rd.idx0, rb.mask) = 1
    /\ wr.pc = "copy" /\ wr.i = 1

Min(a, b) == IF a < b THEN a ELSE b

\* What C5 says of a write that has returned and of a read that has
\* returned, towards the indices aw, ar the call observed.
WriteAsClaimed ==
    /\ wr.ret = Min(wr.len, rb.size - USub(wr.aw, wr.ar))
    /\ rb.write_idx = UAdd(wr.idx0, wr.ret)

ReadAsClaimed ==
    /\ rd.ret = Min(rd.len, USub(rd.aw, rd.ar))
    /\ rb.read_idx = UAdd(rd.idx0, rd.ret)

\* C5 as stated: every amp_ringbuf_write with a valid handle returns
\* n = min(len, size - (write_idx - read_idx)) and advances write_idx by n;
\* every amp_ringbuf_read with a valid handle returns
\* n = min(len, write_idx - read_idx) and advances read_idx by n.
C5_TransferCount ==
    /\ (wr.pc = "idle" /\ wr.op = "write" /\ wr.h) => WriteAsClaimed
    /\ (rd.pc = "idle" /\ rd.op = "read" /\ rd.h) => ReadAsClaimed

\* C5 amended: the same for every call with a valid handle and a non-null
\* data pointer.
C5_TransferCountNonNullData ==
    /\ (wr.pc = "idle" /\ wr.op = "write" /\ wr.h /\ wr.buf) => WriteAsClaimed
    /\ (rd.pc = "idle" /\ rd.op = "read" /\ rd.h /\ rd.buf) => ReadAsClaimed

\* C5 witness: the scenario of the claim at the scale of a 2-byte buffer: a
\* write that has to be cut short (2 bytes offered, 1 pending, 1 accepted)
\* returns while the data positions have wrapped, and all bytes written so
\* far have been read back in order.
C5_Witness ==
    /\ rb.size = 2
    /\ wr.pc = "idle" /\ wr.op = "write" /\ wr.h /\ wr.buf
    /\ wr.len = 2 /\ wr.ret = 1 /\ USub(wr.aw, wr.ar) = 1
    /\ rd.pc = "idle" /\ rd.op = "read" /\ rd.h /\ rd.buf /\ rd.ret = 2
    /\ Len(written) >= 4
    /\ readout = written

----------------------------------------------------------------------------
(* Semaphore properties. *)

\* C6: in every reachable state of any interleaving of try_wait, wait and
\* post calls of both cores, successful posts - successful waits =
\* count - initial, and 0 <= count <= max_count.
C6_SemConservation ==
    /\ posts - waits = sem.count - sem0
    /\ 0 <= sem.count
    /\ sem.count <= sem.max_count

\* C6 witness: a compare-and-swap has just failed (the other core changed
\* count under it) after both posts and waits have succeeded.
C6_Witness ==
    /\ posts >= 1
    /\ waits >= 2
    /\ \E c \in Cores :
         /\ score[c].pc = "cas"
         /\ score[c].current # sem.count
         /\ score[1 - c].pc = "idle" /\ score[1 - c].ret = 0

\* A core is inside the critical section of increment_counter: between its
\* successful wait and its post.
InCritical(c) == app[c].pc \in { "store", "own", "release" }

\* C7: with the semaphore created as (1, 1) and both cores following
\* "successful wait, critical section, post", at most one core is inside
\* the critical section.
C7_MutualExclusion == ~(InCritical(0) /\ InCritical(1))

\* C7 witness: one core is inside the critical section while the other one,
\* having seen count = 0, spins in amp_semaphore_wait.
C7_Witness ==
    \E c \in Cores :
        /\ InCritical(c)
        /\ app[1 - c].pc = "wait"
        /\ score[1 - c].pc = "entry"
        /\ score[1 - c].count # 0
        /\ sem.count = 0

----------------------------------------------------------------------------
(* Boot properties. *)

\* C8: once bit i of ready_flags is set it remains set: no step of
\* amp_boot_init or amp_boot_signal_ready, on either core, clears a bit.
C8_ReadyBitsStay ==
    [][ \A i \in Cores : BitSet(core_ready_flags, i) => BitSet(core_ready_flags', i) ]_vars

----------------------------------------------------------------------------
(* Arena properties. *)

\* round_up(s, 8) as a number, without a word to overflow.
RoundUp8(s) == ((s + 7) \div 8) * 8

RECURSIVE SumRounded(_)
SumRounded(q) == IF q = << >> THEN 0 ELSE RoundUp8(Head(q)[1]) + SumRounded(Tail(q))

\* C9: after amp_shmem_init succeeded and k allocations succeeded with the
\* sizes s1..sk, allocated is the sum of round_up(si, 8), and every address
\* returned is 8-byte-aligned, lies in [base, base+size) and starts a range
\* of si bytes disjoint from every range returned before.
C9_ArenaMonotonicity ==
    /\ g_shmem_pool.allocated = SumRounded(allocs)
    /\ \A k \in 1 .. Len(allocs) :
         /\ allocs[k][2] % 8 = 0
         /\ g_shmem_pool.base <= allocs[k][2]
         /\ allocs[k][2] < g_shmem_pool.base + g_shmem_pool.size
         /\ \A j \in 1 .. k - 1 :
              \/ allocs[j][2] + allocs[j][1] <= allocs[k][2]
              \/ allocs[k][2] + allocs[k][1] <= allocs[j][2]

\* C10: for every size in 1 .. 2^w - 1 and every arena state,
\* amp_shmem_alloc(size) returns null and leaves allocated unchanged
\* exactly when allocated + round_up(size, 8), computed without overflow,
\* exceeds the pool size; otherwise it returns base + allocated and
\* advances allocated by round_up(size, 8), which is at least size.
C10_AllocExact ==
    (last_alloc.called /\ last_alloc.size >= 1) =>
        LET b == last_alloc.before
            up == RoundUp8(last_alloc.size)
        IN  IF b.allocated + up > b.size
            THEN ~last_alloc.ok /\ g_shmem_pool.allocated = b.allocated
            ELSE /\ last_alloc.ok
                 /\ last_alloc.ptr = b.base + b.allocated
                 /\ g_shmem_pool.allocated = b.allocated + up
                 /\ up >= last_alloc.size

----------------------------------------------------------------------------
(* Failure semantics. *)

\* Core c returns from its semaphore call in this step.
SemReturns(c) == score[c].pc # "idle" /\ score'[c].pc = "idle"

\* C11: a post that finds count at max_count returns an error, a try_wait
\* that finds count 0 returns an error (neither goes on to the
\* compare-and-swap), the call that returns an error leaves count as it
\* is, and every step that changes count ends the call of the core that
\* took it with success: a failed call has never changed count, whatever
\* the other core does meanwhile.
C11_SemFailureLeavesCount ==
    [][ \A c \in Cores :
          /\ (score[c].pc = "entry" /\ score'[c] # score[c] /\ score[c].h
                 /\ score[c].op = "post" /\ sem.count >= sem.max_count)
               => (SemReturns(c) /\ score'[c].ret = -1 /\ sem' = sem)
          /\ (score[c].pc = "entry" /\ score'[c] # score[c] /\ score[c].h
                 /\ score[c].op = "try_wait" /\ sem.count = 0)
               => (SemReturns(c) /\ score'[c].ret = -1 /\ sem' = sem)
          /\ (SemReturns(c) /\ score'[c].ret = -1)
               => (sem' = sem /\ posts' = posts /\ waits' = waits)
          /\ (score'[c] # score[c] /\ sem' # sem)
               => (SemReturns(c) /\ score'[c].ret = 0)
      ]_vars

\* C11 witness: a post has failed on a full semaphore, after successful
\* operations of both kinds, while the other core is about to
\* compare-and-swap.
C11_Witness ==
    \E c \in Cores :
        /\ score[c].pc = "idle" /\ score[c].op = "post" /\ score[c].h
        /\ score[c].ret = -1 /\ score[c].current = sem.max_count
        /\ sem.count = sem.max_count
        /\ score[1 - c].pc = "cas"
        /\ posts >= 1 /\ waits >= 1

\* C12: a try_send that finds msg_slots unread messages (the difference of
\* the write_idx it loaded and read_idx is msg_slots or more) returns an
\* error, a try_recv that finds the mailbox empty (the write_idx it loaded
\* equals read_idx) returns an error, and the failing call has changed
\* neither index nor any stored byte: a caller changes the mailbox only
\* while copying, and a call that copies ends with success.
C12_FullAndEmptyRefused ==
    [][ /\ (prod.pc = "load_r" /\ prod' # prod /\ prod.op = "try_send"
              /\ USub(prod.w, mbox.read_idx) >= mbox.msg_slots)
            => (prod'.pc = "idle" /\ prod'.ret = -1 /\ mbox' = mbox /\ sent' = sent)
        /\ (cons.pc = "load_r" /\ cons' # cons /\ cons.op = "try_recv"
              /\ cons.w = mbox.read_idx)
            => (cons'.pc = "idle" /\ cons'.ret = -1 /\ mbox' = mbox /\ received' = received)
        /\ (prod' # prod /\ prod'.pc = "idle" /\ prod'.ret = -1) => mbox' = mbox
        /\ (cons' # cons /\ cons'.pc = "idle" /\ cons'.ret = -1) => mbox' = mbox
        /\ (prod' # prod /\ mbox' # mbox) => prod.pc = "copy"
        /\ (cons' # cons /\ mbox' # mbox) => cons.pc = "copy"
        /\ (prod' # prod /\ prod.pc = "copy")
            => (prod'.pc = "copy" \/ (prod'.pc = "idle" /\ prod'.ret = 0))
        /\ (cons' # cons /\ cons.pc = "copy")
            => (cons'.pc = "copy" \/ (cons'.pc = "idle" /\ cons'.ret = 0))
      ]_vars

\* C12 witness: the example of the claim.  A mailbox of 2 slots that
\* nobody has received from has accepted two messages, the third try_send
\* has returned an error and write_idx is 2, while a try_recv on the
\* other core is under way.
C12_Witness ==
    /\ mbox.msg_slots = 2
    /\ Len(sent) = 2 /\ received = << >>
    /\ prod.pc = "idle" /\ prod.op = "try_send" /\ prod.h /\ prod.buf /\ prod.ret = -1
    /\ mbox.write_idx = 2 /\ mbox.read_idx = 0
    /\ cons.op = "try_recv" /\ cons.pc = "copy"

----------------------------------------------------------------------------
(* Timeouts. *)

\* The consumer is inside amp_mailbox_recv, the producer inside
\* amp_mailbox_send, core c inside amp_semaphore_wait, with valid arguments
\* and timeout_ms > 0.
TimedRecv == cons.pc \notin { "idle", "off" } /\ cons.op = "recv" /\ cons.h /\ cons.buf /\ cons.timeout_ms > 0

TimedSend == prod.pc \notin { "idle", "off" } /\ prod.op = "send" /\ prod.h /\ prod.buf /\ prod.timeout_ms > 0

TimedWait(c) == score[c].pc \notin { "idle", "off" } /\ score[c].op = "wait" /\ score[c].h /\ score[c].timeout_ms > 0

MboxEmpty == mbox.write_idx = mbox.read_idx

MboxFull == USub(mbox.write_idx, mbox.read_idx) = mbox.msg_slots

\* C13: a timed amp_mailbox_recv on a mailbox that stays empty, a timed
\* amp_mailbox_send on a mailbox that stays full and a timed
\* amp_semaphore_wait on a count that stays 0 return an error (they do not
\* wait for ever), and the call that returns the error has changed neither
\* the indices, nor the stored bytes, nor count.
C13_TimeoutPublishesNothing ==
    /\ TimedRecv ~> ((cons.pc = "idle" /\ cons.ret = -1) \/ ~MboxEmpty)
    /\ TimedSend ~> ((prod.pc = "idle" /\ prod.ret = -1) \/ ~MboxFull)
    /\ \A c \in Cores :
         TimedWait(c) ~> ((score[c].pc = "idle" /\ score[c].ret = -1) \/ sem.count # 0)
    /\ [][ /\ (cons' # cons /\ cons.op = "recv" /\ cons'.pc = "idle" /\ cons'.ret = -1)
               => mbox' = mbox
           /\ (prod' # prod /\ prod.op = "send" /\ prod'.pc = "idle" /\ prod'.ret = -1)
               => mbox' = mbox
           /\ (cons' # cons /\ cons.op = "recv" /\ mbox' # mbox)
               => (cons'.pc = "idle" /\ cons'.ret = 0)
           /\ (prod' # prod /\ prod.op = "send" /\ mbox' # mbox)
               => (prod'.pc = "copy" \/ (prod'.pc = "idle" /\ prod'.ret = 0))
           /\ (prod' # prod /\ prod.op = "send" /\ prod.pc = "copy")
               => (prod'.pc = "copy" \/ (prod'.pc = "idle" /\ prod'.ret = 0))
           /\ \A c \in Cores :
                (score'[c] # score[c] /\ score[c].op = "wait")
                   => \/ sem' = sem
                      \/ score'[c].pc = "idle" /\ score'[c].ret = 0
      ]_vars

\* C13 witness: the example of the claim.  A timed receive on a mailbox
\* that has been empty all along has counted its timeout down and returned
\* the error; both indices are still 0.
C13_Witness ==
    /\ cons.pc = "idle" /\ cons.op = "recv" /\ cons.h /\ cons.buf
    /\ cons.timeout_ms > 0 /\ cons.ret = -1
    /\ sent = << >>
    /\ mbox.write_idx = 0 /\ mbox.read_idx = 0
    /\ prod.pc = "copy"

\* The consumer is inside amp_mailbox_recv, the producer inside
\* amp_mailbox_send, core c inside amp_semaphore_wait or
\* amp_boot_wait_core_ready, with valid arguments and timeout_ms = 0.
Recv0 == cons.pc \notin { "idle", "off" } /\ cons.op = "recv" /\ cons.h /\ cons.buf /\ cons.timeout_ms = 0

Send0 == prod.pc \notin { "idle", "off" } /\ prod.op = "send" /\ prod.h /\ prod.buf /\ prod.timeout_ms = 0

Wait0(c) == score[c].pc \notin { "idle", "off" } /\ score[c].op = "wait" /\ score[c].h /\ score[c].timeout_ms = 0

BootWait0(c) == boot[c].pc = "wait" /\ boot[c].timeout_ms = 0

\* C14: with valid arguments and timeout_ms = 0 the blocking calls return
\* nothing but success, and under fair scheduling they do return once the
\* condition they wait for holds and persists: a receive unless the
\* mailbox is empty, a send unless it is full, a semaphore wait unless
\* count is 0, a boot wait unless the ready bit is clear.
C14_ZeroWaitsForEver ==
    /\ [][ /\ (cons' # cons /\ Recv0 /\ cons'.pc = "idle") => cons'.ret = 0
           /\ (prod' # prod /\ Send0 /\ prod'.pc = "idle") => prod'.ret = 0
           /\ \A c \in Cores :
                /\ (score'[c] # score[c] /\ Wait0(c) /\ score'[c].pc = "idle")
                     => score'[c].ret = 0
                /\ (boot'[c] # boot[c] /\ BootWait0(c) /\ boot'[c].pc = "idle")
                     => (boot'[c].ret = "SUCCESS"
                           /\ BitSet(core_ready_flags, boot[c].core_id))
      ]_vars
    /\ Recv0 ~> (cons.pc = "idle" \/ MboxEmpty)
    /\ Send0 ~> (prod.pc = "idle" \/ MboxFull)
    /\ \A c \in Cores :
         /\ Wait0(c) ~> (score[c].pc = "idle" \/ sem.count = 0)
         /\ BootWait0(c) ~> (boot[c].pc = "idle"
                               \/ ~BitSet(core_ready_flags, boot[c].core_id))

----------------------------------------------------------------------------
(* Null handles. *)

\* The producer is inside amp_mailbox_send, the consumer inside
\* amp_mailbox_recv, with a null mailbox or a null message buffer; core c
\* is inside amp_semaphore_wait with a null semaphore.
NullSend == prod.pc \notin { "idle", "off" } /\ prod.op = "send" /\ (~prod.h \/ ~prod.buf)

NullRecv == cons.pc \notin { "idle", "off" } /\ cons.op = "recv" /\ (~cons.h \/ ~cons.buf)

NullWait(c) == score[c].pc \notin { "idle", "off" } /\ score[c].op = "wait" /\ ~score[c].h

\* C15: amp_mailbox_send and amp_mailbox_recv called with a null mailbox
\* or a null message buffer, and amp_semaphore_wait called with a null
\* semaphore, return an error to the caller, whatever timeout_ms is.
C15_NullHandleReturnsError ==
    /\ NullSend ~> (prod.pc = "idle" /\ prod.ret = -1)
    /\ NullRecv ~> (cons.pc = "idle" /\ cons.ret = -1)
    /\ \A c \in Cores : NullWait(c) ~> (score[c].pc = "idle" /\ score[c].ret = -1)

----------------------------------------------------------------------------
(* Boot errors. *)

\* Core c is inside amp_boot_init, and core c returns from a boot call in
\* this step.
InBootInit(c) == boot[c].op = "init" /\ boot[c].pc \in { "init", "init_load", "init_store" }

BootReturns(c) == boot[c].pc # "idle" /\ boot'[c].pc = "idle"

\* C16: amp_boot_init on a core other than the primary changes
\* ready_flags in none of its steps and returns the invalid-core error; on
\* the primary core it returns success, and bit 0 of ready_flags is set
\* when it returns.
C16_BootInitPrimaryOnly ==
    [][ \A c \in Cores :
          (boot'[c] # boot[c] /\ InBootInit(c)) =>
              IF c # 0
              THEN /\ core_ready_flags' = core_ready_flags
                   /\ BootReturns(c)
                   /\ boot'[c].ret = "INVALID_CORE"
              ELSE BootReturns(c) =>
                       (boot'[c].ret = "SUCCESS" /\ BitSet(core_ready_flags', 0))
      ]_vars

\* C16 witness: the primary core has returned from amp_boot_init with
\* success and has started core 1, which has called amp_boot_init in its
\* turn and got the invalid-core error, with both ready bits set.
C16_Witness ==
    /\ boot[0].pc = "idle" /\ boot[0].op = "core" /\ boot[0].ret = "SUCCESS"
    /\ boot[1].pc = "idle" /\ boot[1].op = "init" /\ boot[1].ret = "INVALID_CORE"
    /\ core_ready_flags = 3

----------------------------------------------------------------------------
(* Boot publication. *)

\* C17: when amp_boot_wait_core_ready(AMP_CORE1, t) has returned success
\* on core 0, the store core 1 made before it called
\* amp_boot_signal_ready is visible to core 0: the load core 0 makes after
\* the return yields the value stored.
C17_ReadyPublishes ==
    (payload.seen # <<>> /\ payload.wrote) => payload.seen = <<1>>

----------------------------------------------------------------------------
(* Creation properties. *)

\* The smallest power of two that is at least n, as a number (no word to
\* overflow).
RECURSIVE NextPow2From(_, _)
NextPow2From(p, n) == IF p >= n THEN p ELSE NextPow2From(2 * p, n)

\* C18: a successful amp_mailbox_create with msg_size > 0 and msg_slots in
\* 1 .. 2^32 - 1 yields msg_slots = the smallest power of two that is at
\* least the requested count, mask = msg_slots - 1 and both indices 0; a
\* null config, msg_size = 0 or msg_slots = 0 is refused and leaves the
\* arena as it was.
C18_CreateRoundsSlots ==
    created.kind = "mailbox" =>
        /\ (created.null \/ created.a = 0 \/ created.b = 0) =>
               (~created.ok /\ g_shmem_pool = created.before)
        /\ created.ok =>
               /\ created.obj.msg_slots = NextPow2From(1, created.b)
               /\ created.obj.mask = created.obj.msg_slots - 1
               /\ created.obj.write_idx = 0
               /\ created.obj.read_idx = 0

\* C19: amp_mailbox_create refuses a configuration whose slot count rounds
\* to more than 2^31 (half the index word), and amp_ringbuf_create refuses
\* a size above 2^31.
C19_CapacityBoundChecked ==
    /\ (created.kind = "mailbox" /\ ~created.null /\ created.a > 0
            /\ NextPow2From(1, created.b) > Word \div 2) => ~created.ok
    /\ (created.kind = "ringbuf" /\ created.a > Word \div 2) => ~created.ok

----------------------------------------------------------------------------
(* Non-blocking calls. *)

\* An upper bound on the steps a mailbox try_send / try_recv still has to
\* take before it returns: the two loads, one step per byte, the store.
MboxTryLeft(p) ==
    CASE p.pc = "entry"  -> MsgSize + 3
      [] p.pc = "load_r" -> MsgSize + 2
      [] p.pc = "copy"   -> MsgSize - p.i + 1
      [] OTHER           -> 0

\* The same for amp_ringbuf_available / amp_ringbuf_free_space.
RbGetLeft(c) ==
    CASE c.pc = "get_w" -> 2
      [] c.pc = "get_r" -> 1
      [] OTHER          -> 0

\* The same for amp_semaphore_try_wait and amp_semaphore_get_count, for a
\* single pass through the loop of try_wait.
SemTryLeft(c) ==
    CASE c.pc = "entry" -> 2
      [] c.pc = "cas"   -> 1
      [] c.pc = "get"   -> 1
      [] OTHER          -> 0

\* Every step a core takes inside a try_send, a try_recv or a ring-buffer
\* pure load brings it closer to the return.
MboxAndLoadsAdvance ==
    /\ (prod.op = "try_send" /\ prod.pc # "idle" /\ prod' # prod)
           => MboxTryLeft(prod') < MboxTryLeft(prod)
    /\ (cons.op = "try_recv" /\ cons.pc # "idle" /\ cons' # cons)
           => MboxTryLeft(cons') < MboxTryLeft(cons)
    /\ (rd.op = "available" /\ rd.pc # "idle" /\ rd' # rd) => RbGetLeft(rd') < RbGetLeft(rd)
    /\ (wr.op = "free_space" /\ wr.pc # "idle" /\ wr' # wr) => RbGetLeft(wr') < RbGetLeft(wr)

\* Core c takes a step inside a try_wait or a get_count.
SemTryStep(c) ==
    /\ score[c].op \in { "try_wait", "get_count" }
    /\ score[c].pc # "idle"
    /\ score'[c] # score[c]

\* C20 as stated: every try_* call and pure load returns within a bounded
\* number of the caller's own steps whatever the other core does: each own
\* step of amp_mailbox_try_send, amp_mailbox_try_recv,
\* amp_semaphore_try_wait, amp_semaphore_get_count, amp_ringbuf_available
\* and amp_ringbuf_free_space brings the call closer to its return.
C20_WaitFree ==
    [][ /\ MboxAndLoadsAdvance
        /\ \A c \in Cores : SemTryStep(c) => SemTryLeft(score'[c]) < SemTryLeft(score[c])
      ]_vars

\* C20 amended: the mailbox try calls and the pure loads return within a
\* bounded number of own steps whatever the other core does;
\* amp_semaphore_try_wait does so except that a pass through its loop is
\* repeated when, and only when, the other core has changed count between
\* the pass's load and its compare-and-swap.
C20_TryOpsBounded ==
    [][ /\ MboxAndLoadsAdvance
        /\ \A c \in Cores :
             SemTryStep(c) =>
                 \/ SemTryLeft(score'[c]) < SemTryLeft(score[c])
                 \/ /\ score[c].op = "try_wait"
                    /\ score[c].pc = "cas" /\ score'[c].pc = "entry"
                    /\ sem.count # score[c].current
                    /\ sem' = sem
      ]_vars

\* A try_wait is back at the head of its loop after a compare-and-swap
\* that failed (current still holds the count it had loaded).
C20_Witness ==
    \E c \in Cores :
        /\ score[c].op = "try_wait" /\ score[c].pc = "entry"
        /\ score[c].current # 0

----------------------------------------------------------------------------
(* Semaphore progress. *)

\* Core c is inside a pass of the loop of try_wait / post (also the
\* try_wait made by amp_semaphore_wait).
InSemPass(c) == score[c].pc \in { "entry", "cas" }

\* Core c ends a pass with a result: the call returns, or
\* amp_semaphore_wait takes the failure of its try_wait.
SemPassEnds(c) == InSemPass(c) /\ score'[c].pc \in { "idle", "retry" }

\* Core c's compare-and-swap fails in this step.
SemCasFails(c) == score[c].pc = "cas" /\ score'[c].pc = "entry"

\* C21: a compare-and-swap of try_wait / post fails only if the other
\* core's compare-and-swap changed count after the caller's load: count
\* changes only in a successful compare-and-swap, which ends its caller's
\* pass, a core holds the loaded value of count when it reaches the
\* compare-and-swap, and a failing compare-and-swap finds count different
\* from it.  A compare-and-swap that finds count as loaded ends the call
\* with success, so a pass without concurrent change is the only one; and
\* whenever both cores are inside try_wait / post, one of them eventually
\* ends its pass.
C21_SemLockFree ==
    /\ [][ /\ sem.count' # sem.count =>
                \E c \in Cores :
                    /\ score[c].pc = "cas" /\ score[c].current = sem.count
                    /\ score'[c].pc = "idle" /\ score'[c].ret = 0
                    /\ score'[1 - c] = score[1 - c]
           /\ \A c \in Cores :
                /\ (score[c].pc # "cas" /\ score'[c].pc = "cas")
                       => (score'[c].current = sem.count /\ sem' = sem)
                /\ SemCasFails(c) => (sem.count # score[c].current /\ sem' = sem)
                /\ (score[c].pc = "cas" /\ score[c].current = sem.count
                        /\ score'[c] # score[c])
                       => (score'[c].pc = "idle" /\ score'[c].ret = 0)
         ]_vars
    /\ ((\A c \in Cores : InSemPass(c)) ~> (\E c \in Cores : ~InSemPass(c)))

\* A post is back at the head of its loop after a compare-and-swap that
\* lost against the other core.
C21_Witness ==
    \E c \in Cores :
        /\ score[c].op = "post" /\ score[c].pc = "entry"
        /\ score[c].current # 0
        /\ score[1 - c].pc = "idle" /\ score[1 - c].ret = 0 /\ score[1 - c].op # "none"

----------------------------------------------------------------------------
(* Destroy and free properties. *)

\* C22: a call of amp_mailbox_destroy, amp_ringbuf_destroy,
\* amp_semaphore_destroy or amp_shmem_free, with any argument, null
\* included, and however many calls came before, leaves the arena (base,
\* size, allocated) and the control block and payload of the mailbox, the
\* ring buffer and the semaphore as they are.
C22_DestroyAndFreeNoOps ==
    [][ released' # released => UNCHANGED <<g_shmem_pool, mbox, rb, sem>> ]_vars

\* The last of several destroy / free calls has been made on an arena
\* with allocations in it, or on an object holding payload.
C22_Witness ==
    /\ released = MaxReleases
    /\ \/ g_shmem_pool.allocated > 0 /\ Len(allocs) > 0
       \/ Len(sent) > Len(received)
       \/ Len(written) > Len(readout)
       \/ posts > 0

----------------------------------------------------------------------------
(* Mailbox publication. *)

\* The msg_size bytes of the slot of index idx.
SlotBytes(idx) ==
    [ b \in 1 .. mbox.msg_size |-> mbox.data[MboxOffset(idx, mbox.mask, mbox.msg_size, b - 1)] ]

\* The numbers (from 0) of the messages published and not yet released.
PendingMsgs == Len(received) .. Len(sent) - 1

\* C23: write_idx counts the messages whose copy is complete and
\* read_idx those the consumer has released; in every reachable state,
\* also while the producer is copying the next message, the slot of each
\* index in [read_idx, write_idx) holds exactly the message of that
\* number, and the slot the producer is copying into is none of them.
C23_PublishedSlotsComplete ==
    /\ mbox.write_idx = Len(sent) % Word
    /\ mbox.read_idx = Len(received) % Word
    /\ \A k \in PendingMsgs : SlotBytes(k % Word) = sent[k + 1]
    /\ prod.pc = "copy" =>
           \A k \in PendingMsgs : BitAnd(k % Word, mbox.mask) # BitAnd(prod.w, mbox.mask)

\* The producer is in the middle of copying a message into a mailbox of
\* two slots whose other slot holds a pending message the consumer is
\* copying out, after earlier messages went through both slots.
C23_Witness ==
    /\ mbox.msg_slots = 2
    /\ Len(received) >= 2
    /\ PendingMsgs # {}
    /\ prod.pc = "copy" /\ prod.i = 1
    /\ cons.pc = "copy" /\ cons.i = 1

----------------------------------------------------------------------------
(* Barriers after the writes of ready_flags. *)

\* Core c returns, in this step, from an operation that has written
\* core_ready_flags: amp_boot_init on the primary core or
\* amp_boot_signal_ready.
ReturnsFromFlagWriter(c) ==
    /\ BootReturns(c)
    /\ \/ boot[c].op = "signal"
       \/ boot[c].op = "init" /\ boot'[c].ret = "SUCCESS"

\* Core c completes a data-memory barrier in this step.
CompletesDmb(c) == boot[c].pc = "sig_dmb" /\ boot'[c].pc # "sig_dmb"

\* C24: the core that writes ready_flags issues a data-memory barrier
\* after the write and before the writing operation returns, in
\* amp_boot_init as in amp_boot_signal_ready: the step in which such an
\* operation returns is the completion of a barrier, and it writes
\* ready_flags no more.
C24_BarrierAfterFlagWrite ==
    [][ \A c \in Cores :
          ReturnsFromFlagWriter(c) =>
              (CompletesDmb(c) /\ core_ready_flags' = core_ready_flags)
      ]_vars

----------------------------------------------------------------------------
(* Ring buffer with clear. *)

\* C26: with one writer core calling amp_ringbuf_write and one reader core
\* calling amp_ringbuf_read and amp_ringbuf_clear, in every reachable
\* state the unsigned difference write_idx - read_idx lies in 0 .. size,
\* also after the indices have wrapped, and every amp_ringbuf_available
\* and amp_ringbuf_free_space that has returned on a valid handle returned
\* a value in 0 .. size.
C26_RingbufCapacity ==
    /\ USub(rb.write_idx, rb.read_idx) >= 0
    /\ USub(rb.write_idx, rb.read_idx) <= rb.size
    /\ (rd.pc = "idle" /\ rd.op = "available" /\ rd.h) => (rd.ret >= 0 /\ rd.ret <= rb.size)
    /\ (wr.pc = "idle" /\ wr.op = "free_space" /\ wr.h) => (wr.ret >= 0 /\ wr.ret <= rb.size)

\* A clear that dropped bytes has returned and the buffer has been filled
\* again, write_idx wrapped and read_idx not, and the writer's
\* amp_ringbuf_free_space has returned 0.
C26_Witness ==
    /\ rb.size = 2
    /\ rd.pc = "idle" /\ rd.op = "clear" /\ rd.h /\ rd.idx0 # rb.read_idx
    /\ USub(rb.write_idx, rb.read_idx) = rb.size
    /\ rb.write_idx < rb.read_idx
    /\ wr.pc = "idle" /\ wr.op = "free_space" /\ wr.h /\ wr.ret = 0

----------------------------------------------------------------------------
(* Index ownership. *)

\* The fields of the control blocks that are set at creation.
MboxShape == <<mbox.msg_size, mbox.msg_slots, mbox.mask>>

RbShape == <<rb.size, rb.mask>>

\* C25: no step of the mailbox send operations (try_send, send) writes
\* read_idx and no step of the receive operations (try_recv, recv) writes
\* write_idx; no step of amp_ringbuf_write writes read_idx and no step of
\* amp_ringbuf_read or amp_ringbuf_clear writes write_idx; msg_size,
\* msg_slots, size and mask are written by no step after creation.
C25_IndexOwnership ==
    [][ /\ prod' # prod => mbox'.read_idx = mbox.read_idx
        /\ cons' # cons => mbox'.write_idx = mbox.write_idx
        /\ wr' # wr => rb'.read_idx = rb.read_idx
        /\ rd' # rd => rb'.write_idx = rb.write_idx
        /\ MboxShape' = MboxShape
        /\ RbShape' = RbShape
      ]_vars

\* Both sides have stored their own index on the mailbox, or on the ring
\* buffer with the reader returning from a clear that moved read_idx.
C25_Witness ==
    \/ /\ mbox.write_idx > 1 /\ mbox.read_idx > 0
       /\ prod.pc = "copy" /\ cons.pc = "copy"
    \/ /\ rb.write_idx > 1
       /\ rd.pc = "idle" /\ rd.op = "clear" /\ rd.h /\ rd.idx0 # rb.read_idx
       /\ wr.pc = "copy"

----------------------------------------------------------------------------
(* amp_ringbuf_clear. *)

\* The reader's amp_ringbuf_clear stores read_idx in this step.
ClearStores == rd.op = "clear" /\ rd.pc = "clr_store" /\ rd' # rd

\* C27: amp_ringbuf_clear called by the reader sets read_idx to the
\* write_idx value it loaded and leaves write_idx and the data bytes as
\* they are; if no write was published since that load, available() is 0
\* and free_space() is size afterwards; on a buffer that was empty and
\* stayed so the clear changes nothing; and the bytes the reads return,
\* before and after a clear, are bytes of the written stream in order,
\* none altered, those dropped by the clear left out.
C27_ClearDropsPending ==
    /\ [][ ClearStores =>
             /\ rb'.read_idx = rd.aw
             /\ rb'.write_idx = rb.write_idx
             /\ rb'.data = rb.data
             /\ rb.write_idx = rd.aw =>
                    /\ RbAvailable(rb'.write_idx, rb'.read_idx) = 0
                    /\ RbFreeSpace(rb'.size, RbAvailable(rb'.write_idx, rb'.read_idx)) = rb.size
             /\ (rb.write_idx = rd.aw /\ rb.read_idx = rb.write_idx) => rb' = rb
         ]_vars
    /\ [] IsPrefix(readout, written)

\* A clear has dropped pending bytes of a buffer whose write_idx had
\* wrapped, and the writer is copying the next bytes.
C27_Witness ==
    /\ rd.pc = "idle" /\ rd.op = "clear" /\ rd.h
    /\ rd.idx0 > rb.read_idx
    /\ rb.read_idx = rb.write_idx
    /\ wr.pc = "copy" /\ wr.i = 1

----------------------------------------------------------------------------
(* C28: the ping-pong scenario *)

\* Both cores of an example have run to the end of their program.
ExampleOver == \A c \in Cores : task[c].pc = "end"

\* The messages the ping-pong scenario expects each core to receive:
\* core 1 the PINGs 0 .. PingPongCount-1 in order, core 0 the PONGs
\* 0 .. PingPongCount-1 in order and then DONE.
ExpectedPings == [ k \in 1 .. PingPongCount |-> << MSG_PING, k - 1, 0 >> ]

ExpectedPongs ==
    [ k \in 1 .. PingPongCount + 1 |->
        IF k <= PingPongCount THEN << MSG_PONG, k - 1, 1 >> ELSE << MSG_DONE, 0, 1 >> ]

PingPongOutcome ==
    /\ task[1].got = ExpectedPings
    /\ task[0].got = ExpectedPongs
    /\ \A b \in DOMAIN boxes : USub(boxes[b].write_idx, boxes[b].read_idx) = 0

\* No mailbox call of either core has returned non-zero (timed out).
NoCallFailed == \A c \in Cores : task[c].failed = 0

\* C28 as stated: whenever the ping-pong exchange is over, each core has
\* received the sequence numbers 0 .. PingPongCount-1 in order, core 0
\* has then received DONE, and write_idx - read_idx is 0 on both
\* mailboxes.
C28_PingPongAlwaysCompletes == ExampleOver => PingPongOutcome

\* What the ping-pong program does guarantee in place of C28 as stated:
\* under fair scheduling the exchange always ends, and
\* whenever it has ended without a timed-out call, each core has received
\* the sequence numbers 0 .. PingPongCount-1 in order, core 0 has then
\* received DONE, and write_idx - read_idx is 0 on both mailboxes.
C28_PingPongCompletesUnlessTimeout ==
    /\ <>ExampleOver
    /\ [](ExampleOver /\ NoCallFailed => PingPongOutcome)

\* The exchange has ended without a timeout: core 0 has received
\* PingPongCount + 1 messages, all that core 1 has sent.
C28_Witness ==
    /\ ExampleOver /\ NoCallFailed
    /\ Len(task[0].got) = PingPongCount + 1
    /\ boxes[ToCore0].write_idx = PingPongCount + 1

----------------------------------------------------------------------------
(* C29: the shared-counter scenario *)

\* Both cores have left the loop of lines 78-79 / 157-158.
LoopsFinished ==
    \A c \in Cores : app[c].pc = "loop" /\ app[c].i = MaxIncrements

\* C29 as stated: once both cores have finished their loops of
\* MaxIncrements calls of increment_counter, counter equals
\* 2 * MaxIncrements, core0_increments + core1_increments equals
\* 2 * MaxIncrements and the semaphore count is 1.
C29_CounterReachesTotal ==
    LoopsFinished =>
        /\ shared.counter = 2 * MaxIncrements
        /\ shared.core0_increments + shared.core1_increments = 2 * MaxIncrements
        /\ sem.count = 1

\* What the shared-counter program does guarantee in place of C29 as
\* stated: once both cores have finished their loops, counter equals
\* core0_increments + core1_increments, which is the number of waits of
\* increment_counter that returned 0, and the semaphore count is 1.
C29_CounterCountsAcquisitions ==
    LoopsFinished =>
        /\ shared.counter = waits
        /\ shared.core0_increments + shared.core1_increments = waits
        /\ sem.count = 1

\* Both loops have finished after every wait succeeded.
C29_Witness == LoopsFinished /\ waits = 2 * MaxIncrements

----------------------------------------------------------------------------
(* C30: message routing in the hello example *)

\* Core c is inside a mailbox call of kind op.
InCall(c, op) == task[c].call.pc # "idle" /\ task[c].call.op = op

\* C30: in the hello example every message core 0 receives is core 1's
\* greeting and every message core 1 receives is core 0's response (so
\* core 1 never receives its own greeting), and g_mailbox never has both
\* cores receiving from it or both cores sending to it at the same time.
C30_HelloRouting ==
    /\ \A k \in 1 .. Len(task[0].got) : task[0].got[k] = HelloMsg(1)
    /\ \A k \in 1 .. Len(task[1].got) : task[1].got[k] = HelloMsg(0)
    /\ ~(InCall(0, "recv") /\ InCall(1, "recv"))
    /\ ~(InCall(0, "send") /\ InCall(1, "send"))

\* The first part alone: no core receives a message it has sent itself.
C30_NoOwnMessage ==
    \A c \in Cores : \A k \in 1 .. Len(task[c].got) : task[c].got[k] # HelloMsg(c)

----------------------------------------------------------------------------
(* C31: mailbox storage bounds *)

\* The arena bytes the last successful create call was given.
CreatedBytes == g_shmem_pool.allocated - created.before.allocated

\* One past the last byte of the slot of index idx, counted from the start
\* of the mailbox's control block: the header, then the msg_size bytes at
\* data[(idx & mask) * msg_size] (amp_mailbox.c lines 85-88, 113-117).
SlotEnd(m, idx) == MboxHeaderSize + MboxOffset(idx, m.mask, m.msg_size, m.msg_size - 1) + 1

\* C31: after every amp_mailbox_create that succeeds, for any uint32_t
\* msg_size and msg_slots, the arena bytes allocated to the mailbox cover
\* the header plus msg_slots x msg_size bytes, and every slot try_send
\* writes or try_recv reads, whatever the index, lies inside the
\* mailbox's own allocation (hence apart from every other allocation) and
\* inside the arena.
C31_MailboxStorageInBounds ==
    (created.kind = "mailbox" /\ created.ok) =>
        /\ CreatedBytes >= MboxHeaderSize + created.obj.msg_slots * created.obj.msg_size
        /\ \A idx \in 0 .. Word - 1 :
             /\ SlotEnd(created.obj, idx) <= CreatedBytes
             /\ created.before.allocated + SlotEnd(created.obj, idx) <= g_shmem_pool.size

\* The same restricted to slot counts that need no rounding beyond half
\* the index word (the capacities C19 is about are left out): the product
\* msg_size * slots alone overflows.
C31_InBoundsForValidSlots ==
    created.b <= Word \div 2 => C31_MailboxStorageInBounds

\* A create call that succeeded with its storage in bounds.
C31_Witness ==
    /\ created.kind = "mailbox" /\ created.ok
    /\ created.obj.msg_slots > 1
    /\ C31_MailboxStorageInBounds

====
